---- MODULE Spec2Model ----
(***************************************************************************)
(* Model of the category classifier of shonra-api: analyzeCategory in      *)
(* src/routes/products.js, the two storage reads it issues through         *)
(* executeQuery, the categories / category_keywords tables it reads, the   *)
(* two product-save handlers that call it, and the category handlers of    *)
(* routes/categories.js that run beside it: status, delete, assign and     *)
(* move-products.                                                          *)
(* Text is a sequence of one-character strings.                            *)
(***************************************************************************)
EXTENDS Integers, Sequences, FiniteSets, TLC

VARIABLES
  categories,         \* table categories: rows [id, name, is_active]
  category_keywords,  \* table category_keywords: rows [category_id, keyword, is_high_priority]
  pc,                 \* position of the analyzeCategory invocation
  productName,        \* its argument
  categoriesResult,   \* result of the first executeQuery
  keywordsResult,     \* result of the second executeQuery
  scores,             \* the local `score` of every category after its forEach body
  matchedKeywords,    \* the local `matchedKeywords` of every category
  result,             \* value the promise resolves with
  outcome,            \* "pending", "resolved" or "rejected"
  previous,           \* the last completed invocation, as its caller saw it
  products,           \* table shopee_products: rows [item_id, category_id]
  handler,            \* the product-save request being handled
  suspended,          \* the other analyzeCategory invocations, waiting at an await
  snapshots,          \* the categories tables the invocation has run beside
  admin,              \* the category delete or status request being handled
  schema,             \* the names of the tables the database holds
  seeding,            \* the keyword seeding migration: its position and locals
  runner,             \* the migration runner process
  product_tags,       \* table product_tags: rows [product_item_id, tag_id]
  tagRequests         \* the tag-sync requests being handled

vars == <<categories, category_keywords, pc, productName, categoriesResult,
          keywordsResult, scores, matchedKeywords, result, outcome, previous,
          products, handler, suspended, snapshots, admin, schema, seeding,
          runner, product_tags, tagRequests>>

\* the schema, the migration scripts and the tag requests, which the
\* category and product handlers leave alone
scriptsAndTags == <<schema, seeding, runner, product_tags, tagRequests>>

----------------------------------------------------------------------------
(* Bounds *)

MaxCats == 2
MaxKeywords == 1
\* rows of category_keywords in the stores of the scoring runs
MaxScoringKeywords == 2
\* analyzeCategory invocations waiting while another one runs
MaxSuspended == 1
\* runs of the keyword seeding migration
MaxSeedRuns == 2

----------------------------------------------------------------------------
(* Values *)

\* null, the value for "no match": no category id (ids are AUTO_INCREMENT, from 1)
Null == 0
None == [productName |-> <<>>, result |-> Null, reads |-> <<FALSE, FALSE>>, set |-> FALSE]
\* a productName that is not a string (a number, undefined): no text has this shape
NotAString == <<"not a string">>
\* no executeQuery result yet
NotIssued == [success |-> FALSE, data |-> <<>>, error |-> FALSE]
\* executeQuery caught a storage error: { success: false, error: ... }
QueryFailure == [success |-> FALSE, data |-> <<>>, error |-> TRUE]
\* executeQuery returned rows: { success: true, data: rows }
QuerySuccess(rows) == [success |-> TRUE, data |-> rows, error |-> FALSE]

----------------------------------------------------------------------------
(* Characters and strings *)

UpperCaseLetters == <<"A","B","C","D","E","F","G","H","I","J","K","L","M",
                      "N","O","P","Q","R","S","T","U","V","W","X","Y","Z">>
LowerCaseLetters == <<"a","b","c","d","e","f","g","h","i","j","k","l","m",
                      "n","o","p","q","r","s","t","u","v","w","x","y","z">>
Digits == {"0","1","2","3","4","5","6","7","8","9"}

Range(s) == {s[i] : i \in DOMAIN s}

IndexOf(seq, c) == CHOOSE i \in DOMAIN seq : seq[i] = c

\* String.prototype.toLowerCase, one character
toLowerChar(c) ==
  IF c \in Range(UpperCaseLetters)
    THEN LowerCaseLetters[IndexOf(UpperCaseLetters, c)]
    ELSE c

\* String.prototype.toLowerCase
toLowerCase(s) == [i \in DOMAIN s |-> toLowerChar(s[i])]

\* String.prototype.toUpperCase, one character
toUpperChar(c) ==
  IF c \in Range(LowerCaseLetters)
    THEN UpperCaseLetters[IndexOf(LowerCaseLetters, c)]
    ELSE c

toUpperCase(s) == [i \in DOMAIN s |-> toUpperChar(s[i])]

\* String.prototype.includes
includes(s, k) ==
  \E i \in 0..(Len(s) - Len(k)) : SubSeq(s, i + 1, i + Len(k)) = k

\* the class \w of a RegExp without the u flag
IsWordChar(c) ==
  c \in Range(UpperCaseLetters) \cup Range(LowerCaseLetters) \cup Digits \cup {"_"}

\* the assertion \b at position p (between s[p] and s[p+1])
IsWordBoundary(s, p) ==
  LET before == p >= 1 /\ p <= Len(s) /\ IsWordChar(s[p])
      after  == p + 1 >= 1 /\ p + 1 <= Len(s) /\ IsWordChar(s[p + 1])
  IN  before # after

\* characters replaced by keywordLower.replace(/[.*+?^${}()|[\]\\]/g, '\\$&')
RegExpSpecial == {".","*","+","?","^","$","{","}","(",")","|","[","]","\\"}

\* mutant: the keyword is put into the pattern as it is
escapeRegExp_none(k) == k

\* the escaped pattern source: every special character gets a backslash
RECURSIVE escapeRegExp(_)
escapeRegExp(k) ==
  IF k = <<>> THEN <<>>
  ELSE (IF Head(k) \in RegExpSpecial THEN <<"\\", Head(k)>> ELSE <<Head(k)>>)
       \o escapeRegExp(Tail(k))

\* the pattern source compiled to atoms: \c is the literal c, an unescaped
\* dot is the wildcard, any other character is itself
RECURSIVE compileRegExp(_)
compileRegExp(src) ==
  IF src = <<>> THEN <<>>
  ELSE IF Head(src) = "\\" /\ Len(src) >= 2
    THEN <<[kind |-> "lit", ch |-> src[2]]>> \o compileRegExp(Tail(Tail(src)))
  ELSE IF Head(src) = "."
    THEN <<[kind |-> "any", ch |-> "."]>> \o compileRegExp(Tail(src))
  ELSE <<[kind |-> "lit", ch |-> Head(src)]>> \o compileRegExp(Tail(src))

\* new RegExp(source) raises a SyntaxError ("Nothing to repeat"): a quantifier
\* that follows no atom, or a quantifier other than the lazy ? that follows a
\* quantifier. last is "none", "atom", "quantifier" or "lazy".
RECURSIVE regExpSyntaxError(_, _)
regExpSyntaxError(src, last) ==
  IF src = <<>> THEN FALSE
  ELSE IF Head(src) = "\\" /\ Len(src) >= 2
    THEN regExpSyntaxError(Tail(Tail(src)), "atom")
  ELSE IF Head(src) \in {"*", "+", "?"}
    THEN IF last = "atom" THEN regExpSyntaxError(Tail(src), "quantifier")
         ELSE IF last = "quantifier" /\ Head(src) = "?"
           THEN regExpSyntaxError(Tail(src), "lazy")
         ELSE TRUE
  ELSE regExpSyntaxError(Tail(src), "atom")

\* one atom against one character under the i flag (Canonicalize = upper case)
AtomMatches(atom, c) ==
  \/ atom.kind = "any"
  \/ atom.kind = "lit" /\ toUpperChar(atom.ch) = toUpperChar(c)

\* new RegExp(`\\b${escaped}\\b`, 'i').test(s)
wordBoundaryRegexTest(keywordLower, s) ==
  LET atoms == compileRegExp(escapeRegExp(keywordLower))
      n == Len(atoms)
  IN  \E i \in 0..(Len(s) - n) :
        /\ IsWordBoundary(s, i)
        /\ \A j \in 1..n : AtomMatches(atoms[j], s[i + j])
        /\ IsWordBoundary(s, i + n)

\* new RegExp(`\\b${escaped}\\b`, 'i') throws; \b is no atom a quantifier can repeat
wordBoundaryRegexThrows(keywordLower) ==
  regExpSyntaxError(escapeRegExp(keywordLower), "none")

\* separators of catName.split(/[\s\-_]+/)
IsSeparator(c) == c \in {" ", "-", "_"}

\* the pieces of s between separators, empty pieces left out
RECURSIVE splitPieces(_, _)
splitPieces(s, cur) ==
  IF s = <<>> THEN (IF cur = <<>> THEN <<>> ELSE <<cur>>)
  ELSE IF IsSeparator(Head(s))
    THEN (IF cur = <<>> THEN <<>> ELSE <<cur>>) \o splitPieces(Tail(s), <<>>)
  ELSE splitPieces(Tail(s), Append(cur, Head(s)))

\* mutant: the filter lets every piece through
filterLongerThanOne_keepAll(ws) == ws

RECURSIVE filterLongerThanOne(_)
filterLongerThanOne(ws) ==
  IF ws = <<>> THEN <<>>
  ELSE (IF Len(Head(ws)) > 1 THEN <<Head(ws)>> ELSE <<>>)
       \o filterLongerThanOne(Tail(ws))

\* catName.split(/[\s\-_]+/).filter(w => w.length > 1)
catWordsOf(catName) == filterLongerThanOne(splitPieces(catName, <<>>))

----------------------------------------------------------------------------
(* The store: ORDER BY and the two SELECTs of analyzeCategory *)

\* weights of the characters under the table collation (case-insensitive)
CollationOrder == <<" ", "&", "+", "-", ".", "_",
                    "0","1","2","3","4","5","6","7","8","9",
                    "a","b","c","d","e","f","g","h","i","j","k","l","m",
                    "n","o","p","q","r","s","t","u","v","w","x","y","z">>

CollationRank(c) == IndexOf(CollationOrder, toLowerChar(c))

\* a sorts strictly before b under ORDER BY ... ASC
RECURSIVE CollLess(_, _)
CollLess(a, b) ==
  IF b = <<>> THEN FALSE
  ELSE IF a = <<>> THEN TRUE
  ELSE IF CollationRank(Head(a)) < CollationRank(Head(b)) THEN TRUE
  ELSE IF CollationRank(Head(a)) > CollationRank(Head(b)) THEN FALSE
  ELSE CollLess(Tail(a), Tail(b))

\* all orders in which a set of rows can be listed
Perms(S) ==
  {f \in [1..Cardinality(S) -> S] : \A i, j \in DOMAIN f : i # j => f[i] # f[j]}

\* mutant: the WHERE clause is missing
ActiveCategoryRows_all(cats) ==
  {[id |-> c.id, name |-> c.name] : c \in cats}

\* mutant: the WHERE clause tests the wrong value
ActiveCategoryRows_inverted(cats) ==
  {[id |-> c.id, name |-> c.name] : c \in {x \in cats : ~x.is_active}}

\* SELECT id, name FROM categories WHERE is_active = 1
ActiveCategoryRows(cats) ==
  {[id |-> c.id, name |-> c.name] : c \in {x \in cats : x.is_active}}

\* mutant: the ORDER BY clause is missing, the rows come in any order
OrderByName_anyOrder(rows) == Perms(rows)

\* ... ORDER BY name ASC
OrderByName(rows) ==
  {f \in Perms(rows) :
     \A i, j \in DOMAIN f : i < j => ~CollLess(f[j].name, f[i].name)}

\* SELECT ck.category_id, ck.keyword, ck.is_high_priority FROM category_keywords ck
\* JOIN categories c ON ck.category_id = c.id WHERE c.is_active = 1
ActiveKeywordRows(cats, kws) ==
  {k \in kws : \E c \in cats : c.id = k.category_id /\ c.is_active}

\* ... ORDER BY ck.category_id, ck.is_high_priority DESC, ck.keyword ASC
KeywordRowBefore(a, b) ==
  \/ a.category_id < b.category_id
  \/ /\ a.category_id = b.category_id
     /\ \/ a.is_high_priority /\ ~b.is_high_priority
        \/ /\ a.is_high_priority = b.is_high_priority
           /\ CollLess(a.keyword, b.keyword)

OrderByCategoryPriorityKeyword(rows) ==
  {f \in Perms(rows) : \A i, j \in DOMAIN f : i < j => ~KeywordRowBefore(f[j], f[i])}

----------------------------------------------------------------------------
(* analyzeCategory: building the keyword lists *)

\* rows of kwData pushed by `if (categoryKeywords[kw.category_id])` for one category
RECURSIVE registeredKeywords(_, _)
registeredKeywords(id, kwData) ==
  IF kwData = <<>> THEN <<>>
  ELSE (IF Head(kwData).category_id = id THEN <<Head(kwData).keyword>> ELSE <<>>)
       \o registeredKeywords(id, Tail(kwData))

\* mutant: the name and the name words are not put on the list
categoryKeywordsOf_registeredOnly(cat, kwData) == registeredKeywords(cat.id, kwData)

\* categoryKeywords[cat.id]: the name, the name words, then the registered keywords
categoryKeywordsOf(cat, kwData) ==
  <<toLowerCase(cat.name)>> \o catWordsOf(toLowerCase(cat.name))
    \o registeredKeywords(cat.id, kwData)

\* mutant: the high-priority keywords of every category are put on the list
categoryHighPriorityKeywordsOf_anyCategory(id, kwData) ==
  SelectSeq([i \in DOMAIN kwData |-> kwData[i].keyword],
            LAMBDA k : \E i \in DOMAIN kwData :
                        kwData[i].keyword = k /\ kwData[i].is_high_priority)

\* categoryHighPriorityKeywords[cat.id]
RECURSIVE categoryHighPriorityKeywordsOf(_, _)
categoryHighPriorityKeywordsOf(id, kwData) ==
  IF kwData = <<>> THEN <<>>
  ELSE (IF Head(kwData).category_id = id /\ Head(kwData).is_high_priority
          THEN <<Head(kwData).keyword>> ELSE <<>>)
       \o categoryHighPriorityKeywordsOf(id, Tail(kwData))

----------------------------------------------------------------------------
(* analyzeCategory: scoring one category *)

isExactWord(keyword, productNameLower) ==
  wordBoundaryRegexTest(toLowerCase(keyword), productNameLower)

\* mutant: receiver and argument of includes are swapped
isSubstring_swapped(keyword, productNameLower) ==
  includes(toLowerCase(keyword), productNameLower)

isSubstring(keyword, productNameLower) ==
  includes(productNameLower, toLowerCase(keyword))

\* the guard `if (isExactWord || isSubstring)`
keywordMatches(keyword, productNameLower) ==
  isExactWord(keyword, productNameLower) \/ isSubstring(keyword, productNameLower)

\* highPriorityKeywords.some(...)
isHighPriority(keyword, highPriorityKeywords) ==
  LET keywordLower == toLowerCase(keyword)
  IN  \E i \in DOMAIN highPriorityKeywords :
        LET hp == toLowerCase(highPriorityKeywords[i])
        IN  \/ keywordLower = hp
            \/ includes(keywordLower, hp)
            \/ includes(hp, keywordLower)

\* mutant: the chain is walked from its last test, so the last rule that
\* applies gives the points
keywordPoints_lastRuleWins(keyword, cat, highPriorityKeywords, productNameLower) ==
  IF isExactWord(keyword, productNameLower) THEN 5 ELSE 1

\* mutant: every matching keyword is worth one point
keywordPoints_flat(keyword, cat, highPriorityKeywords, productNameLower) == 1

\* the if / else-if chain that adds to `score` for a matching keyword
keywordPoints(keyword, cat, highPriorityKeywords, productNameLower) ==
  IF keyword = toLowerCase(cat.name) THEN 20
  ELSE IF keyword \in Range(catWordsOf(toLowerCase(cat.name))) THEN 15
  ELSE IF isHighPriority(keyword, highPriorityKeywords)
          /\ isExactWord(keyword, productNameLower) THEN 10
  ELSE IF isHighPriority(keyword, highPriorityKeywords)
          /\ isSubstring(keyword, productNameLower) THEN 5
  ELSE IF isExactWord(keyword, productNameLower) THEN 5
  ELSE 1

\* matchedKeywords after keywords.forEach
RECURSIVE matchedOf(_, _)
matchedOf(keywords, productNameLower) ==
  IF keywords = <<>> THEN <<>>
  ELSE (IF keywordMatches(Head(keywords), productNameLower)
          THEN <<Head(keywords)>> ELSE <<>>)
       \o matchedOf(Tail(keywords), productNameLower)

RECURSIVE sumPoints(_, _, _, _)
sumPoints(matched, cat, highPriorityKeywords, productNameLower) ==
  IF matched = <<>> THEN 0
  ELSE keywordPoints(Head(matched), cat, highPriorityKeywords, productNameLower)
       + sumPoints(Tail(matched), cat, highPriorityKeywords, productNameLower)

\* mutant: the bonus is taken off the score
multiMatchBonus_subtracted(matched) == IF Len(matched) > 1 THEN 0 - Len(matched) * 2 ELSE 0

\* if (matchedKeywords.length > 1) score += matchedKeywords.length * 2
multiMatchBonus(matched) == IF Len(matched) > 1 THEN Len(matched) * 2 ELSE 0

\* matchedKeywords.forEach(keyword => { if (keyword.length > 5) score += 2 })
lengthBonus(matched) == 2 * Cardinality({i \in DOMAIN matched : Len(matched[i]) > 5})

\* `score` of one category when its forEach body ends
categoryScore(cat, kwData, productNameLower) ==
  LET matched == matchedOf(categoryKeywordsOf(cat, kwData), productNameLower)
      hp == categoryHighPriorityKeywordsOf(cat.id, kwData)
  IN  sumPoints(matched, cat, hp, productNameLower)
        + multiMatchBonus(matched) + lengthBonus(matched)

\* mutant: a category with the score of the best so far replaces it
scoreBeatsBest_orEqual(score, bestScore) == score >= bestScore

\* mutant: the comparison forgets the best score so far
scoreBeatsBest_anyPositive(score, bestScore) == score > 0

\* if (score > bestScore) { bestScore = score; bestMatch = cat.id }
scoreBeatsBest(score, bestScore) == score > bestScore

\* categories.forEach over bestMatch / bestScore, then `bestScore > 0 ? bestMatch : null`
RECURSIVE bestMatchOf(_, _, _, _)
bestMatchOf(cats, sc, bestMatch, bestScore) ==
  IF cats = <<>> THEN (IF bestScore > 0 THEN bestMatch ELSE Null)
  ELSE IF scoreBeatsBest(sc[Head(cats).id], bestScore)
    THEN bestMatchOf(Tail(cats), sc, Head(cats).id, sc[Head(cats).id])
    ELSE bestMatchOf(Tail(cats), sc, bestMatch, bestScore)

\* mutant: the guard on keywordsResult is missing, forEach runs on undefined
populateKeywords_unguarded(kwResult) ==
  [threw |-> ~kwResult.success, rows |-> kwResult.data]

\* `if (keywordsResult.success && keywordsResult.data && ...length > 0)`: the rows
\* pushed onto the keyword lists; without rows the lists hold the names only.
\* threw: the forEach raised a TypeError (never, thanks to the guard)
populateKeywords(kwResult) ==
  [threw |-> FALSE,
   rows |-> IF kwResult.success /\ Len(kwResult.data) > 0 THEN kwResult.data ELSE <<>>]

\* the RegExp constructor throws for some keyword of some category (the
\* constructor runs for every keyword, before the match is tested)
scoringThrows(catData, kwData) ==
  \E i \in DOMAIN catData :
    LET keywords == categoryKeywordsOf(catData[i], kwData)
    IN  \E j \in DOMAIN keywords : wordBoundaryRegexThrows(toLowerCase(keywords[j]))

scoresOf(catData, kwData, productNameLower) ==
  [id \in {catData[i].id : i \in DOMAIN catData} |->
     categoryScore(CHOOSE c \in Range(catData) : c.id = id, kwData, productNameLower)]

matchedKeywordsOf(catData, kwData, productNameLower) ==
  [id \in {catData[i].id : i \in DOMAIN catData} |->
     matchedOf(categoryKeywordsOf(CHOOSE c \in Range(catData) : c.id = id, kwData),
               productNameLower)]

----------------------------------------------------------------------------
(* Inputs: the stores and the product names the model draws from *)

\* the categories an administrator has created: id and (unique) name
CategoryNames ==
  << <<"C","d">>, <<"A","b">>, <<"X","y","-","Z">> >>

KeywordPool ==
  { <<"a","b">>, <<"A","B">>, <<"x","y">> }

ProductNamePool ==
  { <<"a","b"," ","c","d">>,
    <<"A","B"," ","x","y">>,
    <<"z","X","Y">>,
    <<>> }

ProductNameInputs == ProductNamePool \cup {NotAString}

\* categories: id PRIMARY KEY, name NOT NULL UNIQUE, is_active; any of the
\* created categories may have been deleted since
CategoryTables ==
  UNION { { {[id |-> i, name |-> CategoryNames[i], is_active |-> act[i]] : i \in ids} :
              act \in [ids -> BOOLEAN] } :
          ids \in SUBSET (1..MaxCats) }

KeywordRows(cats) ==
  [category_id : {c.id : c \in cats}, keyword : KeywordPool,
   is_high_priority : BOOLEAN]

\* category_keywords: FOREIGN KEY (category_id), UNIQUE KEY (category_id, keyword)
KeywordTables(cats) ==
  {K \in SUBSET KeywordRows(cats) :
     /\ Cardinality(K) <= MaxKeywords
     /\ \A a, b \in K :
          (a.category_id = b.category_id
             /\ toLowerCase(a.keyword) = toLowerCase(b.keyword)) => a = b}

\* the stores of the scoring runs: two active categories, one with a
\* one-word name longer than 5 characters, one with a name of two words
ScoringCategories ==
  { [id |-> 1, name |-> <<"C","a","m","e","r","a">>, is_active |-> TRUE],
    [id |-> 2, name |-> <<"H","i","-","F","i">>, is_active |-> TRUE] }

\* the keyword rows an administrator has registered in the scoring runs
ScoringKeywordRows ==
  { [category_id |-> 1, keyword |-> <<"a","t">>, is_high_priority |-> FALSE],
    [category_id |-> 1, keyword |-> <<"c","a","t">>, is_high_priority |-> TRUE],
    [category_id |-> 1, keyword |-> <<"p","h","o","n","e">>, is_high_priority |-> FALSE],
    [category_id |-> 1, keyword |-> <<"c","a","m","e","r","a">>, is_high_priority |-> FALSE],
    [category_id |-> 1, keyword |-> <<"a",".","b">>, is_high_priority |-> TRUE],
    [category_id |-> 2, keyword |-> <<"p","h","o","n","e">>, is_high_priority |-> TRUE],
    [category_id |-> 2, keyword |-> <<"c","a","t">>, is_high_priority |-> FALSE],
    [category_id |-> 2, keyword |-> <<"a",".","b">>, is_high_priority |-> FALSE],
    [category_id |-> 2, keyword |-> <<"c","+","+">>, is_high_priority |-> TRUE],
    [category_id |-> 2, keyword |-> <<"c","a","m","e","r","a">>, is_high_priority |-> TRUE] }

ScoringProductNames ==
  { <<"c","a","t"," ","p","h","o","n","e">>,
    <<"c","a","m","e","r","a">>,
    <<"H","i","-","F","i">>,
    <<"h","i"," ","f","i">>,
    <<"a","x","b">>,
    <<"a",".","b"," ","c","+","+">> }

\* the tables of at most n rows that keep UNIQUE KEY (category_id, keyword)
RECURSIVE ScoringKeywordTablesUpTo(_)
ScoringKeywordTablesUpTo(n) ==
  IF n = 0 THEN {{}}
  ELSE LET smaller == ScoringKeywordTablesUpTo(n - 1)
       IN  smaller \cup
           UNION { { K \cup {r} :
                       r \in {x \in ScoringKeywordRows :
                                \A a \in K :
                                  ~(a.category_id = x.category_id
                                    /\ toLowerCase(a.keyword) = toLowerCase(x.keyword))} } :
                   K \in smaller }

ScoringKeywordTables == ScoringKeywordTablesUpTo(MaxScoringKeywords)

----------------------------------------------------------------------------
(* The invocation of analyzeCategory *)

isString(p) == p # NotAString

\* mutant: the product name is used as given
productNameLowerOf_asGiven(p) == p

\* const productNameLower = productName.toLowerCase()
productNameLowerOf(p) == toLowerCase(p)

\* `!categoriesResult.success || !categoriesResult.data || data.length === 0`
noCategoriesAvailable(catResult) ==
  ~catResult.success \/ Len(catResult.data) = 0

\* no request is being handled
HandlerIdle == [pc |-> "idle"]

\* no category delete or status request is being handled
AdminIdle ==
  [pc |-> "idle", route |-> "none", id |-> 0, is_active |-> FALSE,
   check |-> "not issued", count |-> 0, written |-> FALSE,
   status |-> 0, success |-> FALSE, hasProducts |-> FALSE]

\* no analyzeCategory invocation is running
NotRunning ==
  [pc |-> "idle", productName |-> <<>>, categoriesResult |-> NotIssued,
   keywordsResult |-> NotIssued, scores |-> <<>>, matchedKeywords |-> <<>>,
   result |-> Null, outcome |-> "pending", snapshots |-> {}]

\* the tables this model speaks of
AllTables == {"categories", "category_keywords", "shopee_products", "product_tags"}

\* the seeding migration before it is started
SeedIdle ==
  [pc |-> "idle", list |-> <<>>, groups |-> <<>>, c |-> 0, k |-> 0, before |-> {},
   failed |-> FALSE, runs |-> 0, prevFailed |-> FALSE, after |-> {}]

\* the runner before it is started
RunnerIdle ==
  [pc |-> "idle", dir |-> {}, files |-> <<>>, i |-> 0, started |-> <<>>,
   running |-> {}, failures |-> {}, successCount |-> 0, skipCount |-> 0,
   errorCount |-> 0, exited |-> FALSE, exitCode |-> 0]

\* a tag-sync request slot without a request
TagRequestIds == {"first", "second"}
TagIdle ==
  [pc |-> "idle", itemId |-> "", tagIds |-> <<>>, status |-> 0,
   deleteOk |-> FALSE, insertOk |-> FALSE]

\* no request in flight and the runner not started
NoRequest ==
  /\ runner = RunnerIdle
  /\ tagRequests = [r \in TagRequestIds |-> TagIdle]
  /\ pc = "idle"
  /\ productName = <<>>
  /\ categoriesResult = NotIssued
  /\ keywordsResult = NotIssued
  /\ scores = <<>>
  /\ matchedKeywords = <<>>
  /\ result = Null
  /\ outcome = "pending"
  /\ previous = None
  /\ handler = HandlerIdle
  /\ admin = AdminIdle
  /\ suspended = [i \in 1..MaxSuspended |-> NotRunning]
  /\ snapshots = {}

\* the server without a request in flight, on the full schema
Quiet ==
  /\ NoRequest
  /\ product_tags = {}
  /\ schema = AllTables
  /\ seeding = SeedIdle

Init ==
  /\ categories \in CategoryTables
  /\ category_keywords \in KeywordTables(categories)
  /\ products = {}
  /\ Quiet

\* mutant: the invocation deactivates the categories it works on
StoreUntouched_deactivates ==
  /\ categories' = {[c EXCEPT !.is_active = FALSE] : c \in categories}
  /\ UNCHANGED <<category_keywords, products>>

\* analyzeCategory issues its two SELECTs and no other statement
StoreUntouched == UNCHANGED <<categories, category_keywords, products>>

\* what a step of one invocation leaves alone: the request handlers and the
\* invocations waiting at an await
OthersUntouched == UNCHANGED <<handler, suspended, admin, scriptsAndTags>>

\* analyzeCategory(p) starts: the first executeQuery is issued
Start(p) ==
  /\ pc = "idle"
  /\ pc' = "categories"
  /\ productName' = p
  /\ categoriesResult' = NotIssued
  /\ keywordsResult' = NotIssued
  /\ scores' = <<>>
  /\ matchedKeywords' = <<>>
  /\ result' = Null
  /\ outcome' = "pending"
  /\ snapshots' = {categories}
  /\ StoreUntouched
  /\ UNCHANGED previous

\* a caller invokes analyzeCategory(p)
Call(p) ==
  /\ ~previous.set
  /\ Start(p)
  /\ OthersUntouched

\* the caller invokes analyzeCategory again with the product name of the
\* invocation before
CallAgain ==
  /\ previous.set
  /\ Start(previous.productName)
  /\ OthersUntouched

\* `return v`: the promise resolves with v
Resolve(v) ==
  /\ pc' = "done"
  /\ result' = v
  /\ outcome' = "resolved"

\* `catch (error) { Logger.error(...); return null; }`
Catch == Resolve(Null)

\* the code between the first executeQuery and the second
AfterCategoriesQuery(catResult) ==
  /\ categoriesResult' = catResult
  /\ IF noCategoriesAvailable(catResult)
       THEN Resolve(Null)
     ELSE IF ~isString(productName)
       THEN Catch                       \* productName.toLowerCase is not a function
     ELSE /\ pc' = "keywords"
          /\ UNCHANGED <<result, outcome>>
  /\ StoreUntouched
  /\ OthersUntouched
  /\ UNCHANGED <<productName, keywordsResult, scores, matchedKeywords, previous,
                 snapshots>>

\* the first executeQuery returns { success: false }
CategoriesQueryFails ==
  /\ pc = "categories"
  /\ AfterCategoriesQuery(QueryFailure)

\* the first executeQuery returns the active categories
CategoriesQuerySucceeds ==
  /\ pc = "categories"
  /\ \E data \in OrderByName(ActiveCategoryRows(categories)) :
       AfterCategoriesQuery(QuerySuccess(data))

\* the rest of analyzeCategory once the second executeQuery has returned kwResult
AfterKeywordsQuery(kwResult) ==
  LET catData == categoriesResult.data
      populated == populateKeywords(kwResult)
      lower == productNameLowerOf(productName)
      sc == scoresOf(catData, populated.rows, lower)
  IN  /\ keywordsResult' = kwResult
      /\ IF populated.threw \/ scoringThrows(catData, populated.rows)
           THEN Catch /\ UNCHANGED <<scores, matchedKeywords>>
           ELSE /\ scores' = sc
                /\ matchedKeywords' = matchedKeywordsOf(catData, populated.rows, lower)
                /\ Resolve(bestMatchOf(catData, sc, Null, 0))
      /\ StoreUntouched
      /\ OthersUntouched
      /\ UNCHANGED <<productName, categoriesResult, previous, snapshots>>

\* the second executeQuery returns { success: false }
KeywordsQueryFails ==
  /\ pc = "keywords"
  /\ AfterKeywordsQuery(QueryFailure)

\* the second executeQuery returns the keyword rows of the active categories
KeywordsQuerySucceeds ==
  /\ pc = "keywords"
  /\ \E data \in OrderByCategoryPriorityKeyword(
                   ActiveKeywordRows(categories, category_keywords)) :
       AfterKeywordsQuery(QuerySuccess(data))

\* the caller takes the value and goes on; the locals of the invocation are gone
Finish(prev) ==
  /\ pc = "done"
  /\ pc' = "idle"
  /\ productName' = <<>>
  /\ categoriesResult' = NotIssued
  /\ keywordsResult' = NotIssued
  /\ scores' = <<>>
  /\ matchedKeywords' = <<>>
  /\ result' = Null
  /\ outcome' = "pending"
  /\ previous' = prev
  /\ snapshots' = {}
  /\ StoreUntouched

Return == Finish(None) /\ OthersUntouched

\* the caller keeps what it called with and what it got
ReturnAndKeep ==
  /\ ~previous.set
  /\ Finish([productName |-> productName, result |-> result,
             reads |-> <<categoriesResult.success, keywordsResult.success>>,
             set |-> TRUE])
  /\ OthersUntouched

Next ==
  \/ \E p \in ProductNameInputs : Call(p)
  \/ CategoriesQueryFails
  \/ CategoriesQuerySucceeds
  \/ KeywordsQueryFails
  \/ KeywordsQuerySucceeds
  \/ Return

Spec == Init /\ [][Next]_vars

\* two invocations in a row with the same product name on an unchanged store
\* whose reads return its rows
NextRepeat ==
  \/ \E p \in ProductNameInputs : Call(p)
  \/ CallAgain
  \/ CategoriesQuerySucceeds
  \/ KeywordsQuerySucceeds
  \/ ReturnAndKeep

SpecRepeat == Init /\ [][NextRepeat]_vars

----------------------------------------------------------------------------
(* The product-save handlers: POST /save and POST /save-from-frontend *)

\* the values a request body carries in category_id, and the values of the
\* local categoryId
Undefined == [type |-> "undefined"]
JsNull == [type |-> "null"]
NaN == [type |-> "NaN"]
JsNumber(n) == [type |-> "number", number |-> n]
JsString(s) == [type |-> "string", text |-> s]

\* ToBoolean: what `v ? ... : ...` and `!v` test
truthy(v) ==
  CASE v.type = "number" -> v.number # 0
    [] v.type = "string" -> v.text # <<>>
    [] OTHER -> FALSE

DigitChars == <<"0","1","2","3","4","5","6","7","8","9">>

\* the digits a text starts with
RECURSIVE leadingDigits(_)
leadingDigits(s) ==
  IF s = <<>> \/ Head(s) \notin Range(DigitChars) THEN <<>>
  ELSE <<Head(s)>> \o leadingDigits(Tail(s))

RECURSIVE decimalValue(_, _)
decimalValue(digits, acc) ==
  IF digits = <<>> THEN acc
  ELSE decimalValue(Tail(digits), acc * 10 + (IndexOf(DigitChars, Head(digits)) - 1))

\* parseInt(v) for an integer or a text without sign or leading blanks: the
\* number its leading digits spell, NaN when it starts with no digit
parseInt(v) ==
  CASE v.type = "number" -> v
    [] v.type = "string" ->
         (IF leadingDigits(v.text) = <<>> THEN NaN
          ELSE JsNumber(decimalValue(leadingDigits(v.text), 0)))
    [] OTHER -> NaN

\* let categoryId = productData.category_id ? parseInt(productData.category_id) : null
initialCategoryId(body) ==
  IF truthy(body.category_id) THEN parseInt(body.category_id) ELSE JsNull

\* productData.productName as a condition: a non-empty text, or a value that
\* is no text, is truthy
truthyName(name) == name # <<>>

\* mutant: the product is classified whatever the request carries
needsAnalysis_always(categoryId, name) == truthyName(name)

\* if (!categoryId && productData.productName)
needsAnalysis(categoryId, name) == ~truthy(categoryId) /\ truthyName(name)

\* the value analyzeCategory resolved with, as the local categoryId
categoryIdFrom(r) == IF r = Null THEN JsNull ELSE JsNumber(r)

\* validateRequiredFields(productData, ["itemId", "productName"]) names a
\* field: the field is absent, or it is empty and the helper counts empty
\* values as missing (emptyCounts)
missingRequiredFields(body, emptyCounts) ==
  {f \in {"itemId", "productName"} :
     \/ ~body.has[f]
     \/ emptyCounts /\ f = "productName" /\ body.productName = <<>>}

\* the one item the requests are about
ItemIds == {"item-1"}

\* the request bodies, after sanitizeObject
SaveBodies ==
  [itemId : ItemIds,
   productName : {<<"a","b"," ","c","d">>, <<"z","X","Y">>, <<>>, NotAString},
   category_id : {Undefined, JsNumber(1), JsNumber(MaxCats + 1),
                  JsString(<<"2">>), JsString(<<"a","b","c">>)},
   has : {[f \in {"itemId", "productName"} |-> TRUE],
          [f \in {"itemId", "productName"} |-> f = "itemId"]}]

SaveRoutes == {"/save", "/save-from-frontend"}

\* the handler at one of its awaits, or with its response sent
Handling(at, route, body, categoryId, analyzed, analysis, status) ==
  [pc |-> at, route |-> route, body |-> body, categoryId |-> categoryId,
   analyzed |-> analyzed, analysis |-> analysis, upsert |-> "not issued",
   status |-> status]

\* the invocation of analyzeCategory is left as it is
InvocationUntouched ==
  UNCHANGED <<pc, productName, categoriesResult, keywordsResult, scores,
              matchedKeywords, result, outcome, snapshots>>

\* a request arrives at one of the two routes: validation, the initial
\* categoryId, and the call of analyzeCategory when there is none
ReceiveSave(route, body, emptyCounts) ==
  /\ handler.pc = "idle"
  /\ pc = "idle"
  /\ body.has["productName"] \/ body.productName = <<>>
  /\ LET categoryId == initialCategoryId(body)
     IN  IF missingRequiredFields(body, emptyCounts) # {}
           THEN /\ handler' = Handling("responded", route, body, JsNull, FALSE, Null, 400)
                /\ InvocationUntouched
                /\ StoreUntouched
         ELSE IF needsAnalysis(categoryId, body.productName)
           THEN /\ handler' = Handling("analyzing", route, body, categoryId, TRUE, Null, 0)
                /\ Start(body.productName)
         ELSE /\ handler' = Handling("upsert", route, body, categoryId, FALSE, Null, 0)
              /\ InvocationUntouched
              /\ StoreUntouched
  /\ UNCHANGED <<previous, suspended, admin, scriptsAndTags>>

\* categoryId = await analyzeCategory(productData.productName); a rejection
\* would be caught by the handler and answered with 500
AnalysisReturns ==
  /\ handler.pc = "analyzing"
  /\ pc = "done"
  /\ handler' = IF outcome = "rejected"
                  THEN [handler EXCEPT !.pc = "responded", !.status = 500]
                  ELSE [handler EXCEPT !.pc = "upsert", !.analysis = result,
                                       !.categoryId = categoryIdFrom(result)]
  /\ Finish(previous)
  /\ UNCHANGED <<suspended, admin, scriptsAndTags>>

\* FOREIGN KEY (category_id) REFERENCES categories(id): NULL or the id of a row
referencesCategory(categoryId, cats) ==
  \/ categoryId = JsNull
  \/ categoryId.type = "number" /\ \E c \in cats : c.id = categoryId.number

\* the row INSERT ... ON DUPLICATE KEY UPDATE leaves for the item
upsertedRow(body, categoryId) ==
  [item_id |-> body.itemId,
   category_id |-> IF categoryId = JsNull THEN Null ELSE categoryId.number]

\* executeQuery(upsertQuery, values) succeeds: the row is written and the
\* success response is sent (/save also rewrites the product's tags first)
UpsertSucceeds ==
  /\ handler.pc = "upsert"
  /\ referencesCategory(handler.categoryId, categories)
  /\ products' = {r \in products : r.item_id # handler.body.itemId}
                   \cup {upsertedRow(handler.body, handler.categoryId)}
  /\ handler' = [handler EXCEPT !.pc = "responded", !.upsert = "written",
                                !.status = 200]
  /\ InvocationUntouched
  /\ UNCHANGED <<categories, category_keywords, previous, suspended, admin,
                 scriptsAndTags>>

\* executeQuery(upsertQuery, values) returns { success: false }: a storage
\* error or a foreign-key violation; the handler throws and answers 500
UpsertFails ==
  /\ handler.pc = "upsert"
  /\ handler' = [handler EXCEPT !.pc = "responded", !.upsert = "failed",
                                !.status = 500]
  /\ InvocationUntouched
  /\ StoreUntouched
  /\ UNCHANGED <<previous, suspended, admin, scriptsAndTags>>

\* the response is out; the next request can come
SaveDone ==
  /\ handler.pc = "responded"
  /\ handler' = HandlerIdle
  /\ InvocationUntouched
  /\ StoreUntouched
  /\ UNCHANGED <<previous, suspended, admin, scriptsAndTags>>

\* the stores of the save runs: the categories, without registered keywords
InitSave ==
  /\ categories \in CategoryTables
  /\ category_keywords = {}
  /\ products = {}
  /\ Quiet

NextSave ==
  \/ \E route \in SaveRoutes : \E body \in SaveBodies : \E emptyCounts \in BOOLEAN :
       ReceiveSave(route, body, emptyCounts)
  \/ CategoriesQueryFails
  \/ CategoriesQuerySucceeds
  \/ KeywordsQueryFails
  \/ KeywordsQuerySucceeds
  \/ AnalysisReturns
  \/ UpsertSucceeds
  \/ UpsertFails
  \/ SaveDone

SpecSave == InitSave /\ [][NextSave]_vars

----------------------------------------------------------------------------
(* Invocations side by side, and the category status handler *)

\* the locals of the invocation that runs
Running ==
  [pc |-> pc, productName |-> productName, categoriesResult |-> categoriesResult,
   keywordsResult |-> keywordsResult, scores |-> scores,
   matchedKeywords |-> matchedKeywords, result |-> result, outcome |-> outcome,
   snapshots |-> snapshots]

\* the invocation that runs is at an await (or has not started, or has
\* returned): the event loop goes on with the invocation waiting in slot i
Switch(i) ==
  /\ suspended[i] # Running
  /\ suspended' = [suspended EXCEPT ![i] = Running]
  /\ pc' = suspended[i].pc
  /\ productName' = suspended[i].productName
  /\ categoriesResult' = suspended[i].categoriesResult
  /\ keywordsResult' = suspended[i].keywordsResult
  /\ scores' = suspended[i].scores
  /\ matchedKeywords' = suspended[i].matchedKeywords
  /\ result' = suspended[i].result
  /\ outcome' = suspended[i].outcome
  /\ snapshots' = suspended[i].snapshots
  /\ StoreUntouched
  /\ UNCHANGED <<previous, handler, admin, scriptsAndTags>>

\* an invocation between its call and its second read
InFlight(at) == at \in {"categories", "keywords"}

\* the tables an invocation in flight has run beside, after the table became cats
Beside(at, snaps, cats) ==
  IF InFlight(at) THEN snaps \cup {cats} ELSE snaps

\* SELECT COUNT(*) as count FROM shopee_products WHERE category_id = ?
productCount(id) == Cardinality({r \in products : r.category_id = id})

\* UPDATE categories SET is_active = ? WHERE id = ?
withStatus(cats, id, is_active) ==
  {IF c.id = id THEN [c EXCEPT !.is_active = is_active] ELSE c : c \in cats}

\* PATCH /:id/status with a boolean is_active, its check query succeeding
\* and no other request stepping in between its check and its UPDATE: a
\* category that still has products is not deactivated; otherwise the UPDATE
\* is issued
PatchStatus(id, is_active) ==
  /\ \E c \in categories : c.id = id
  /\ LET refused == is_active = FALSE /\ productCount(id) > 0
         after == IF refused THEN categories ELSE withStatus(categories, id, is_active)
     IN  /\ categories' = after
         /\ snapshots' = Beside(pc, snapshots, after)
         /\ suspended' = [i \in DOMAIN suspended |->
                            [suspended[i] EXCEPT
                               !.snapshots = Beside(suspended[i].pc, @, after)]]
  /\ UNCHANGED <<category_keywords, products, pc, productName, categoriesResult,
                 keywordsResult, scores, matchedKeywords, result, outcome,
                 previous, handler, admin, scriptsAndTags>>

\* the product names of the invocations that run side by side
ConcurrentProductNames == { <<"a","b"," ","c","d">> }

\* the stores the invocations start on: the first two categories, both
\* active, no keyword or the lower-case one of the pool registered as a plain
\* keyword under one of them, and a product in category 2 or none
InitConcurrent ==
  /\ categories = {[id |-> i, name |-> CategoryNames[i], is_active |-> TRUE] :
                     i \in {1, 2}}
  /\ category_keywords \in
       {K \in KeywordTables(categories) :
          \A k \in K : k.keyword = toLowerCase(k.keyword) /\ ~k.is_high_priority}
  /\ products \in {{}, {[item_id |-> "item-1", category_id |-> 2]}}
  /\ Quiet

NextConcurrent ==
  \/ \E p \in ConcurrentProductNames : Call(p)
  \/ CategoriesQuerySucceeds
  \/ KeywordsQuerySucceeds
  \/ Return
  \/ \E i \in 1..MaxSuspended : Switch(i)
  \/ \E id \in 1..MaxCats : \E is_active \in BOOLEAN : PatchStatus(id, is_active)

SpecConcurrent == InitConcurrent /\ [][NextConcurrent]_vars

\* invocations on the stores of the scoring runs, whose reads return rows
InitScoring ==
  /\ categories = ScoringCategories
  /\ category_keywords \in ScoringKeywordTables
  /\ products = {}
  /\ Quiet

NextScoring ==
  \/ \E p \in ScoringProductNames : Call(p)
  \/ CategoriesQuerySucceeds
  \/ KeywordsQuerySucceeds
  \/ Return

SpecScoring == InitScoring /\ [][NextScoring]_vars

\* categories whose names have pieces of one character, runs of separators,
\* a separator in front, or one character in all
TokenCategoryNames ==
  << <<"H","o","m","e"," ","&"," ","L","i","v","i","n","g">>,
     <<"P","c","_","-","x"," ","T","v">>,
     <<"X">>,
     <<"-","G","o">> >>

TokenCategoryTables ==
  { {[id |-> i, name |-> TokenCategoryNames[i], is_active |-> TRUE] : i \in ids} :
      ids \in SUBSET DOMAIN TokenCategoryNames } \ {{}}

\* no registered keyword, or the one-character piece of a name registered
\* as a keyword of its category
TokenKeywordTables(cats) ==
  {{}} \cup { {[category_id |-> c.id, keyword |-> <<"&">>, is_high_priority |-> FALSE]} :
                c \in {x \in cats : x.id = 1} }

TokenProductNames ==
  { <<"h","o","m","e"," ","&"," ","g","a","r","d","e","n">>,
    <<"x"," ","r","a","y"," ","&"," ","t","v">>,
    <<"g","o"," ","p","c">>,
    <<"L","i","v","i","n","g">> }

\* invocations on the stores of the name-token runs, whose reads return rows
InitTokens ==
  /\ categories \in TokenCategoryTables
  /\ category_keywords \in TokenKeywordTables(categories)
  /\ products = {}
  /\ Quiet

NextTokens ==
  \/ \E p \in TokenProductNames : Call(p)
  \/ CategoriesQuerySucceeds
  \/ KeywordsQuerySucceeds
  \/ Return

SpecTokens == InitTokens /\ [][NextTokens]_vars

----------------------------------------------------------------------------
(* The category handlers of routes/categories.js *)

\* the invocations and the save handler are left as they are
RequestsUntouched ==
  /\ InvocationUntouched
  /\ UNCHANGED <<previous, handler, suspended, scriptsAndTags>>

\* categories changes to `after` beside the invocations in flight
CategoriesBecome(after) ==
  /\ categories' = after
  /\ snapshots' = Beside(pc, snapshots, after)
  /\ suspended' = [i \in DOMAIN suspended |->
                     [suspended[i] EXCEPT
                        !.snapshots = Beside(suspended[i].pc, @, after)]]
  /\ UNCHANGED <<pc, productName, categoriesResult, keywordsResult, scores,
                 matchedKeywords, result, outcome, previous, handler,
                 scriptsAndTags>>

\* DELETE /:id arrives: the count of the category's products is asked for
ReceiveDelete(id) ==
  /\ admin.pc = "idle"
  /\ admin' = [AdminIdle EXCEPT !.pc = "check", !.route = "delete", !.id = id]
  /\ StoreUntouched
  /\ RequestsUntouched /\ UNCHANGED snapshots

\* the count query returns: 400 when products are linked to the category,
\* the DELETE is issued otherwise
DeleteCheckSucceeds ==
  /\ admin.pc = "check" /\ admin.route = "delete"
  /\ LET count == productCount(admin.id)
     IN  admin' = IF count > 0
                    THEN [admin EXCEPT !.pc = "responded", !.check = "ok",
                                       !.count = count, !.status = 400]
                    ELSE [admin EXCEPT !.pc = "write", !.check = "ok"]
  /\ StoreUntouched
  /\ RequestsUntouched /\ UNCHANGED snapshots

\* the count query returns { success: false }: `checkResult.success && ...`
\* is false and the DELETE is issued
DeleteCheckFails ==
  /\ admin.pc = "check" /\ admin.route = "delete"
  /\ admin' = [admin EXCEPT !.pc = "write", !.check = "failed"]
  /\ StoreUntouched
  /\ RequestsUntouched /\ UNCHANGED snapshots

\* DELETE FROM categories WHERE id = ? succeeds: the row goes, its keywords
\* go with it (ON DELETE CASCADE) and the products that reference it are
\* set to NULL (ON DELETE SET NULL)
DeleteSucceeds ==
  /\ admin.pc = "write" /\ admin.route = "delete"
  /\ CategoriesBecome({c \in categories : c.id # admin.id})
  /\ category_keywords' = {k \in category_keywords : k.category_id # admin.id}
  /\ products' = {IF r.category_id = admin.id THEN [r EXCEPT !.category_id = Null]
                                               ELSE r : r \in products}
  /\ admin' = [admin EXCEPT !.pc = "responded", !.written = TRUE,
                            !.status = 200, !.success = TRUE]

\* the DELETE returns { success: false }: the handler throws and answers 500
DeleteFails ==
  /\ admin.pc = "write" /\ admin.route = "delete"
  /\ admin' = [admin EXCEPT !.pc = "responded", !.status = 500]
  /\ StoreUntouched
  /\ RequestsUntouched /\ UNCHANGED snapshots

\* PATCH /:id/status arrives with a boolean is_active: the count is asked
\* for when `is_active === false`, the UPDATE is issued at once otherwise
ReceiveStatus(id, is_active) ==
  /\ admin.pc = "idle"
  /\ admin' = [AdminIdle EXCEPT !.pc = IF is_active = FALSE THEN "check" ELSE "write",
                                !.route = "status", !.id = id,
                                !.is_active = is_active]
  /\ StoreUntouched
  /\ RequestsUntouched /\ UNCHANGED snapshots

\* the count query returns: { hasProducts: true, count } when products are
\* assigned, the UPDATE is issued otherwise
StatusCheckSucceeds ==
  /\ admin.pc = "check" /\ admin.route = "status"
  /\ LET count == productCount(admin.id)
     IN  admin' = IF count > 0
                    THEN [admin EXCEPT !.pc = "responded", !.check = "ok",
                                       !.count = count, !.hasProducts = TRUE,
                                       !.status = 200]
                    ELSE [admin EXCEPT !.pc = "write", !.check = "ok"]
  /\ StoreUntouched
  /\ RequestsUntouched /\ UNCHANGED snapshots

\* the count query returns { success: false }: the UPDATE is issued
StatusCheckFails ==
  /\ admin.pc = "check" /\ admin.route = "status"
  /\ admin' = [admin EXCEPT !.pc = "write", !.check = "failed"]
  /\ StoreUntouched
  /\ RequestsUntouched /\ UNCHANGED snapshots

\* UPDATE categories SET is_active = ? WHERE id = ? succeeds
StatusUpdateSucceeds ==
  /\ admin.pc = "write" /\ admin.route = "status"
  /\ CategoriesBecome(withStatus(categories, admin.id, admin.is_active))
  /\ admin' = [admin EXCEPT !.pc = "responded", !.written = TRUE,
                            !.status = 200, !.success = TRUE]
  /\ UNCHANGED <<category_keywords, products>>

\* the UPDATE returns { success: false }: the handler throws and answers 500
StatusUpdateFails ==
  /\ admin.pc = "write" /\ admin.route = "status"
  /\ admin' = [admin EXCEPT !.pc = "responded", !.status = 500]
  /\ StoreUntouched
  /\ RequestsUntouched /\ UNCHANGED snapshots

\* the response is out; the next delete or status request can come
AdminDone ==
  /\ admin.pc = "responded"
  /\ admin' = AdminIdle
  /\ StoreUntouched
  /\ RequestsUntouched /\ UNCHANGED snapshots

\* the products the category requests are about
AdminItemIds == {"item-1", "item-2"}

\* POST /:id/assign with a non-empty array productIds, its UPDATE
\* succeeding: the products named get category id (the foreign key refuses
\* an id that is no category; any other outcome leaves the store as it is)
Assign(id, productIds) ==
  /\ productIds # {}
  /\ \E c \in categories : c.id = id
  /\ products' = {IF r.item_id \in productIds THEN [r EXCEPT !.category_id = id]
                                                ELSE r : r \in products}
  /\ products' # products
  /\ UNCHANGED <<categories, category_keywords, snapshots, admin>>
  /\ RequestsUntouched

\* POST /:id/move-products with a targetCategoryId, its UPDATE succeeding:
\* the products of category id go to the target category
MoveProducts(id, targetCategoryId) ==
  /\ targetCategoryId # 0
  /\ \E c \in categories : c.id = targetCategoryId
  /\ products' = {IF r.category_id = id THEN [r EXCEPT !.category_id = targetCategoryId]
                                         ELSE r : r \in products}
  /\ products' # products
  /\ UNCHANGED <<categories, category_keywords, snapshots, admin>>
  /\ RequestsUntouched

\* a save request that carries the id of a category
AdminSaveBodies ==
  {b \in SaveBodies :
     /\ b.productName = <<"a","b"," ","c","d">>
     /\ b.category_id = JsNumber(1)
     /\ \A f \in DOMAIN b.has : b.has[f]}

\* the stores of the category runs: two categories, each active or not, no
\* registered keyword or one, and products in a category or in none
InitAdmin ==
  /\ categories \in {T \in CategoryTables : {c.id : c \in T} = {1, 2}}
  /\ category_keywords \in
       {{}, {[category_id |-> 1, keyword |-> <<"a","b">>, is_high_priority |-> FALSE]}}
  /\ products \in
       {{}} \cup {{[item_id |-> "item-1", category_id |-> c]} : c \in {Null, 1}}
            \cup {{[item_id |-> "item-1", category_id |-> c],
                   [item_id |-> "item-2", category_id |-> 2]} : c \in {Null, 1}}
  /\ Quiet

NextAdmin ==
  \/ \E id \in {1, 2} : ReceiveDelete(id)
  \/ DeleteCheckSucceeds
  \/ DeleteCheckFails
  \/ DeleteSucceeds
  \/ DeleteFails
  \/ \E id \in {1, 2} : \E is_active \in BOOLEAN : ReceiveStatus(id, is_active)
  \/ StatusCheckSucceeds
  \/ StatusCheckFails
  \/ StatusUpdateSucceeds
  \/ StatusUpdateFails
  \/ AdminDone
  \/ \E id \in {1, 2} : \E productIds \in SUBSET AdminItemIds : Assign(id, productIds)
  \/ \E id \in {1, 2} : \E targetCategoryId \in {1, 2} : MoveProducts(id, targetCategoryId)
  \/ \E route \in SaveRoutes : \E body \in AdminSaveBodies : ReceiveSave(route, body, FALSE)
  \/ UpsertSucceeds
  \/ UpsertFails
  \/ SaveDone

SpecAdmin == InitAdmin /\ [][NextAdmin]_vars

----------------------------------------------------------------------------
(* Vocabulary of the properties *)

Done == pc = "done"

\* both storage reads of the invocation returned rows of the store
ReadsSucceeded == categoriesResult.success /\ keywordsResult.success

\* the invocation went through the scoring loop
Scored == Done /\ outcome = "resolved" /\ ~noCategoriesAvailable(categoriesResult)
            /\ isString(productName) /\ keywordsResult # NotIssued

ActiveCategories == {c \in categories : c.is_active}

RegisteredUnder(c) == {k \in category_keywords : k.category_id = c.id}

\* the texts the spec calls the effective keyword set of a category
EffectiveKeywords(c) ==
  {toLowerCase(c.name)} \cup Range(catWordsOf(toLowerCase(c.name)))
    \cup {k.keyword : k \in RegisteredUnder(c)}

MaxOf(S) == CHOOSE m \in S : \A x \in S : x <= m

\* classify run alone on a store whose reads succeed
classifyOn(cats, kws, p) ==
  LET catData == CHOOSE d \in OrderByName(ActiveCategoryRows(cats)) : TRUE
      kwData == CHOOSE d \in OrderByCategoryPriorityKeyword(ActiveKeywordRows(cats, kws)) : TRUE
      rows == populateKeywords(QuerySuccess(kwData)).rows
      lower == productNameLowerOf(p)
  IN  IF noCategoriesAvailable(QuerySuccess(catData)) THEN Null
      ELSE bestMatchOf(catData, scoresOf(catData, rows, lower), Null, 0)

\* the scores of classify run alone on a store whose reads succeed
scoresOn(cats, kws, p) ==
  LET catData == CHOOSE d \in OrderByName(ActiveCategoryRows(cats)) : TRUE
      kwData == CHOOSE d \in OrderByCategoryPriorityKeyword(ActiveKeywordRows(cats, kws)) : TRUE
      rows == populateKeywords(QuerySuccess(kwData)).rows
  IN  scoresOf(catData, rows, productNameLowerOf(p))

----------------------------------------------------------------------------
(* C1 *)

\* C1: once the categories are read and scored, the value returned is the id
\* of an active category whose score is maximal among the active categories
\* when that maximum is above 0, and it is null exactly when every active
\* category scores 0.
C1_BestScoreIsReturned ==
  (Done /\ categoriesResult.success /\ isString(productName)) =>
     /\ DOMAIN scores \subseteq {c.id : c \in ActiveCategories}
     /\ Scored => DOMAIN scores = {c.id : c \in ActiveCategories}
     /\ \A i \in DOMAIN scores :
          (scores[i] > 0 /\ scores[i] = MaxOf({scores[j] : j \in DOMAIN scores}))
            => /\ result \in DOMAIN scores
               /\ scores[result] = scores[i]
     /\ (result = Null) <=> (\A i \in DOMAIN scores : scores[i] = 0)

\* two categories score above 0, differently, and the higher one is returned
C1_Witness ==
  /\ Scored
  /\ \E i, j \in DOMAIN scores :
       scores[i] > scores[j] /\ scores[j] > 0 /\ result = i
       /\ \A k \in DOMAIN scores : scores[k] <= scores[i]

----------------------------------------------------------------------------
(* C2 *)

\* the lowercased name of c or one of its name words occurs in the product name
NameOccurs(c, p) ==
  \E k \in {toLowerCase(c.name)} \cup Range(catWordsOf(toLowerCase(c.name))) :
    includes(toLowerCase(p), k)

----------------------------------------------------------------------------
(* C3 *)

\* C3: an empty or non-string product name is rejected, an outcome other
\* than the null of "no match".
C3_MalformedInputIsRejected ==
  (Done /\ (productName = <<>> \/ ~isString(productName))) => outcome = "rejected"

----------------------------------------------------------------------------
(* C4 *)

\* C4: the value returned is never the id of an inactive category, only
\* active categories are scored, and every keyword that adds to a category's
\* score is that category's name, one of its name words, or a keyword
\* registered under that same active category - never one registered only
\* under an inactive category.
C4_InactiveCategoriesExcluded ==
  Done =>
    /\ result # Null => \E c \in ActiveCategories : c.id = result
    /\ DOMAIN scores \subseteq {c.id : c \in ActiveCategories}
    /\ \A id \in DOMAIN scores : scores[id] > 0 => matchedKeywords[id] # <<>>
    /\ \A c \in categories : c.id \in DOMAIN matchedKeywords =>
         \A i \in DOMAIN matchedKeywords[c.id] :
           matchedKeywords[c.id][i] \in EffectiveKeywords(c)

\* a keyword registered under an inactive category occurs in the product
\* name, and a category is returned
C4_Witness ==
  /\ Scored /\ ReadsSucceeded
  /\ result # Null
  /\ \E c \in categories \ ActiveCategories : \E k \in RegisteredUnder(c) :
       /\ includes(toLowerCase(productName), toLowerCase(k.keyword))
       /\ \A a \in ActiveCategories : k.keyword \notin EffectiveKeywords(a)

----------------------------------------------------------------------------
(* C5 *)

\* C5: on a store without active categories every invocation returns null
\* and raises nothing.
C5_NoActiveCategoryNoMatch ==
  (Done /\ ActiveCategories = {}) => (result = Null /\ outcome = "resolved")

\* the only categories are inactive, one of them is named in the product
\* name, and the read of the categories succeeded
C5_Witness ==
  /\ Done /\ ActiveCategories = {} /\ categoriesResult.success
  /\ \E c \in categories : NameOccurs(c, productName)

----------------------------------------------------------------------------
(* C6 *)

\* C6: an invocation that follows another one with the same product name, on
\* the unchanged store and with the same reads succeeding, returns what the
\* first one returned.
C6_RepeatedCallSameResult ==
  (/\ Done /\ previous.set
   /\ previous.productName = productName
   /\ previous.reads = <<categoriesResult.success, keywordsResult.success>>)
    => result = previous.result

\* the second of two invocations ends with two categories tied on the best
\* score and returns the category the first one returned
C6_Witness ==
  /\ Scored /\ previous.set /\ previous.productName = productName
  /\ result # Null /\ result = previous.result
  /\ \E i, j \in DOMAIN scores :
       i # j /\ scores[i] = scores[j] /\ scores[i] = MaxOf({scores[k] : k \in DOMAIN scores})

----------------------------------------------------------------------------
(* C7 *)

\* the product names that differ from p in letter case only
CaseVariants(p) ==
  {toLowerCase(p), toUpperCase(p)}
    \cup {q \in ProductNamePool : toLowerCase(q) = toLowerCase(p)}

\* C7: when the reads succeed, the value returned for a product name is the
\* value classify returns, on the same store, for every product name that
\* differs from it in letter case only.
C7_ProductNameCaseInsensitive ==
  (Done /\ isString(productName) /\ ~categoriesResult.error /\ ~keywordsResult.error) =>
     \A q \in CaseVariants(productName) :
       classifyOn(categories, category_keywords, q) = result

\* a category is returned for a product name that has upper-case letters
C7_Witness ==
  /\ Scored /\ ReadsSucceeded
  /\ result # Null
  /\ toLowerCase(productName) # productName
  /\ toUpperCase(productName) # productName

----------------------------------------------------------------------------
(* C8 *)

\* the keyword tables that differ from the store's in the letter case of one
\* registered keyword
KeywordCaseVariantTables ==
  UNION { { (category_keywords \ {k}) \cup {[k EXCEPT !.keyword = v]} :
              v \in {toLowerCase(k.keyword), toUpperCase(k.keyword)} } :
          k \in category_keywords }

\* C8: replacing a registered keyword by a letter-case variant of itself
\* changes neither the score of any category nor the value returned.
C8_KeywordCaseInsensitive ==
  (Done /\ isString(productName) /\ ~categoriesResult.error /\ ~keywordsResult.error) =>
     \A K \in KeywordCaseVariantTables :
       /\ scoresOn(categories, K, productName)
            = scoresOn(categories, category_keywords, productName)
       /\ classifyOn(categories, K, productName) = result

----------------------------------------------------------------------------
(* C9 *)

\* c has no registered keyword, its name is a whole word of the product name,
\* and nothing matches for any other active category
OnlyNameOfMatches(c) ==
  /\ c \in ActiveCategories
  /\ RegisteredUnder(c) = {}
  /\ wordBoundaryRegexTest(toLowerCase(c.name), toLowerCase(productName))
  /\ \A d \in ActiveCategories \ {c} :
       \A k \in EffectiveKeywords(d) :
         ~includes(toLowerCase(productName), toLowerCase(k))

\* C9: when the categories are read, an active category without registered
\* keywords whose name is a whole word of the product name is returned if
\* nothing matches for any other active category, on a score of at least the
\* 20 points of the exact-name match.
C9_NameAloneWins ==
  (Done /\ categoriesResult.success /\ isString(productName)) =>
     \A c \in categories :
       OnlyNameOfMatches(c) => (result = c.id /\ scores[c.id] >= 20)

\* the case of C9 with a second active category that matches nothing
C9_Witness ==
  /\ Scored
  /\ \E c \in categories :
       /\ OnlyNameOfMatches(c)
       /\ result = c.id
       /\ ActiveCategories \ {c} # {}

----------------------------------------------------------------------------
(* C10 *)

\* no element of the effective keyword set of any active category occurs in
\* the lowercased product name (keywords compared in lower case, as the
\* matching is case-insensitive)
NothingOccurs ==
  \A c \in ActiveCategories : \A k \in EffectiveKeywords(c) :
    ~includes(toLowerCase(productName), toLowerCase(k))

\* C10: when no element of any active category's effective keyword set
\* occurs as a substring of the lowercased product name, null is returned.
C10_NothingOccursNoMatch ==
  (Done /\ isString(productName) /\ NothingOccurs) => result = Null

\* a non-empty product name scored against active categories with registered
\* keywords, none of which occurs in it
C10_Witness ==
  /\ Scored /\ ReadsSucceeded
  /\ productName # <<>>
  /\ NothingOccurs
  /\ \E c \in ActiveCategories : RegisteredUnder(c) # {}
  /\ result = Null

----------------------------------------------------------------------------
(* C11 *)

\* the category scored from the row `row` of the categories read
ScoredCategory(id) == CHOOSE c \in categories : c.id = id

\* the only keyword that matched for category id is the registered keyword k
OnlyMatch(id, k) ==
  /\ id \in DOMAIN matchedKeywords
  /\ matchedKeywords[id] = <<k.keyword>>
  /\ k \in RegisteredUnder(ScoredCategory(id))

\* k is flagged high priority and is a whole word of the product name
HighPriorityExactWord(k) ==
  k.is_high_priority /\ isExactWord(k.keyword, toLowerCase(productName))

\* k is not high priority, on its own flag or through another keyword of its
\* category, and occurs in the product name inside a word only
PlainSubstringOnly(k) ==
  /\ ~isHighPriority(k.keyword,
        categoryHighPriorityKeywordsOf(k.category_id, keywordsResult.data))
  /\ isSubstring(k.keyword, toLowerCase(productName))
  /\ ~isExactWord(k.keyword, toLowerCase(productName))

\* C11: when the only match of one category is a high-priority keyword that
\* is a whole word of the product name and the only match of another is a
\* plain keyword that occurs inside a word only, the first scores at least
\* 10, the second scores its 1 point (and 2 more if it is longer than 5
\* characters), and the second is not returned; with no third category
\* scored, the first is returned.
C11_HighPriorityExactBeatsPlainSubstring ==
  (Scored /\ ReadsSucceeded) =>
    \A a, b \in DOMAIN scores :
      \A ka \in category_keywords : \A kb \in category_keywords :
        (/\ OnlyMatch(a, ka) /\ PlainSubstringOnly(ka)
         /\ OnlyMatch(b, kb) /\ HighPriorityExactWord(kb))
          => /\ scores[b] >= 10
             /\ scores[a] = 1 + (IF Len(ka.keyword) > 5 THEN 2 ELSE 0)
             /\ scores[b] > scores[a]
             /\ result # a
             /\ DOMAIN scores = {a, b} => result = b

\* the case of C11: both patterns are in the product name
C11_Witness ==
  /\ Scored /\ ReadsSucceeded
  /\ \E a, b \in DOMAIN scores :
       \E ka \in category_keywords : \E kb \in category_keywords :
         /\ OnlyMatch(a, ka) /\ PlainSubstringOnly(ka)
         /\ OnlyMatch(b, kb) /\ HighPriorityExactWord(kb)
         /\ result = b

----------------------------------------------------------------------------
(* C12 *)

\* the row of category id in the categories read of the invocation
CategoryRow(id) == CHOOSE r \in Range(categoriesResult.data) : r.id = id

\* the positions of the keyword list kws that match the lowercased name lower
MatchedPositions(kws, lower) ==
  {i \in DOMAIN kws : keywordMatches(kws[i], lower)}

\* the product names the one of the invocation is compared with: the names
\* of the pool and the words of the product name itself
ComparedNames == ScoringProductNames \cup Range(splitPieces(productName, <<>>))

\* the keyword list of category id and the positions of it that match the
\* product name of the invocation (here) and the product name q (there)
Comparison(id, q) ==
  LET row == CategoryRow(id)
      kws == categoryKeywordsOf(row, keywordsResult.data)
      hp == categoryHighPriorityKeywordsOf(id, keywordsResult.data)
      here == MatchedPositions(kws, toLowerCase(productName))
      there == MatchedPositions(kws, toLowerCase(q))
  IN  [kws |-> kws, here |-> here, there |-> there,
       \* q matches only some of the keywords the product name matches, and
       \* those earn the same points on both
       fewerAllElseEqual |->
         /\ there \subseteq here /\ there # here
         /\ \A i \in there :
              keywordPoints(kws[i], row, hp, toLowerCase(q))
                = keywordPoints(kws[i], row, hp, toLowerCase(productName)),
       scoreThere |-> categoryScore(row, keywordsResult.data, toLowerCase(q))]

\* C12: a category scores strictly higher on a product name than on one that
\* matches only some of the keywords the first matches, all else equal: so
\* with one more matched keyword, and so with 3 distinct matched keywords
\* against 1 of them.
C12_MoreMatchesScoreHigher ==
  (Scored /\ ReadsSucceeded) =>
    \A id \in DOMAIN scores : \A q \in ComparedNames :
      LET c == Comparison(id, q)
      IN  c.fewerAllElseEqual => c.scoreThere < scores[id]

\* a category is scored on 3 distinct matched keywords where one product
\* name matches 1 of them and another matches 2 of them
C12_Witness ==
  /\ Scored /\ ReadsSucceeded
  /\ \E id \in DOMAIN scores : \E q1, q2 \in ComparedNames :
       LET c1 == Comparison(id, q1)
           c2 == Comparison(id, q2)
       IN  /\ c1.fewerAllElseEqual /\ c2.fewerAllElseEqual
           /\ Cardinality({c1.kws[i] : i \in c1.here}) = 3
           /\ Cardinality(c1.there) = 1
           /\ Cardinality(c2.there) = 2

----------------------------------------------------------------------------
(* C13 *)

\* the registered keywords that hold a character with a meaning in a pattern
SpecialKeywords ==
  {k \in category_keywords : \E i \in DOMAIN k.keyword : k.keyword[i] \in RegExpSpecial}

\* the text k itself stands in s between two word boundaries
LiteralWholeWord(k, s) ==
  \E i \in 0..(Len(s) - Len(k)) :
    /\ SubSeq(s, i + 1, i + Len(k)) = k
    /\ IsWordBoundary(s, i)
    /\ IsWordBoundary(s, i + Len(k))

\* C13: with keywords that hold regex-special characters registered, the
\* scoring loop runs to its end for every category read (nothing is thrown),
\* such a keyword is among the matched keywords of its category exactly when
\* its own text occurs in the lowercased product name, and it is taken for a
\* whole word exactly when its own text stands there between word boundaries.
C13_SpecialCharactersAreLiteral ==
  (Done /\ ReadsSucceeded /\ isString(productName) /\ SpecialKeywords # {}) =>
    /\ DOMAIN scores = {c.id : c \in ActiveCategories}
    /\ DOMAIN matchedKeywords = DOMAIN scores
    /\ \A k \in SpecialKeywords : k.category_id \in DOMAIN matchedKeywords =>
         /\ (k.keyword \in Range(matchedKeywords[k.category_id]))
              <=> includes(toLowerCase(productName), toLowerCase(k.keyword))
         /\ isExactWord(k.keyword, toLowerCase(productName))
              <=> LiteralWholeWord(toLowerCase(k.keyword), toLowerCase(productName))

\* 'a.b' and 'c++' are registered, the product name is 'axb', and neither
\* keyword is among the matched ones
C13_Witness ==
  /\ Scored /\ ReadsSucceeded
  /\ toLowerCase(productName) = <<"a","x","b">>
  /\ \E k1, k2 \in SpecialKeywords :
       /\ k1.keyword = <<"a",".","b">>
       /\ k2.keyword = <<"c","+","+">>
       /\ k1.category_id \in DOMAIN matchedKeywords
       /\ k1.keyword \notin Range(matchedKeywords[k1.category_id])
       /\ k2.keyword \notin Range(matchedKeywords[k2.category_id])

----------------------------------------------------------------------------
(* C14 *)

\* a request is being handled, or its response has just been sent
InRequest == handler.pc # "idle"

\* the row of the request's item in shopee_products
SavedRows == {r \in products : r.item_id = handler.body.itemId}

\* C14 as stated: analyzeCategory is called only for a request that carries
\* no category_id; a category_id the request carries is the one stored; and
\* after a null from analyzeCategory the handler goes on to the upsert with
\* category_id NULL, so that the product is saved uncategorized and an error
\* response comes from the upsert only.
C14_ClassifiedOnlyWithoutCategoryId ==
  InRequest =>
    /\ handler.analyzed => ~truthy(handler.body.category_id)
    /\ (truthy(handler.body.category_id) /\ handler.status = 200) =>
         \A r \in SavedRows : JsNumber(r.category_id) = parseInt(handler.body.category_id)
    /\ (handler.analyzed /\ handler.pc \in {"upsert", "responded"}
          /\ handler.analysis = Null) =>
         /\ handler.categoryId = JsNull
         /\ referencesCategory(handler.categoryId, categories)
         /\ handler.status = 200 => SavedRows = {upsertedRow(handler.body, JsNull)}
    /\ (handler.analyzed /\ handler.status = 500) => handler.upsert = "failed"

\* the request carries a category_id that parseInt reads as a number other than 0
CarriesUsableCategoryId(body) == truthy(initialCategoryId(body))

\* C14 amended: analyzeCategory is called exactly for the valid requests with
\* a product name and without a usable category_id (none, or text that
\* parseInt does not read as a number other than 0); a usable category_id
\* reaches the upsert as the number parseInt reads and is the one stored;
\* what analyzeCategory returned reaches the upsert otherwise, and after a
\* null the upsert is issued with category_id NULL, which no foreign key
\* refuses, and the row is saved uncategorized; an error response after a
\* classification comes from the upsert only.
C14_ClassifiedWithoutUsableCategoryId ==
  InRequest =>
    /\ handler.status = 400 => (~handler.analyzed /\ handler.upsert = "not issued")
    /\ handler.status # 400 =>
         (handler.analyzed <=>
            (~CarriesUsableCategoryId(handler.body)
               /\ truthyName(handler.body.productName)))
    /\ (CarriesUsableCategoryId(handler.body) /\ handler.status # 400) =>
         /\ handler.categoryId = parseInt(handler.body.category_id)
         /\ handler.status = 200 =>
              SavedRows = {upsertedRow(handler.body, parseInt(handler.body.category_id))}
    /\ (handler.analyzed /\ handler.pc \in {"upsert", "responded"}) =>
         /\ handler.categoryId = categoryIdFrom(handler.analysis)
         /\ handler.status = 200 =>
              SavedRows = {upsertedRow(handler.body, categoryIdFrom(handler.analysis))}
         /\ handler.analysis = Null =>
              /\ handler.categoryId = JsNull
              /\ referencesCategory(handler.categoryId, categories)
    /\ (handler.analyzed /\ handler.status = 500) => handler.upsert = "failed"

\* with an active category in the store, a request without category_id was
\* classified, analyzeCategory returned null, and the product is saved with
\* category_id NULL
C14_Witness ==
  /\ handler.pc = "responded"
  /\ handler.body.category_id = Undefined
  /\ handler.analyzed /\ handler.analysis = Null
  /\ handler.status = 200
  /\ SavedRows = {upsertedRow(handler.body, JsNull)}
  /\ ActiveCategories # {}

----------------------------------------------------------------------------
(* C15 *)

\* C15: a step of an analyzeCategory invocation - its start, the code after
\* each of its two reads, its return, whether with a category, with null or
\* through its catch - leaves categories, category_keywords and
\* shopee_products as they were.
C15_ClassifyLeavesStoreUnchanged ==
  [][pc' # pc => UNCHANGED <<categories, category_keywords, products>>]_vars

\* an invocation made for a save request has returned a category, on a store
\* that holds a product saved by a request before
C15_Witness ==
  /\ Done /\ result # Null
  /\ handler.pc = "analyzing"
  /\ products # {}

----------------------------------------------------------------------------
(* C16 *)

\* the value `returned` is what classify returns, run alone, on one of the
\* stores whose categories table is in `tables`
FromOneSnapshot(returned, name, tables) ==
  \E cats \in tables : returned = classifyOn(cats, category_keywords, name)

\* C16: whatever runs beside it - other invocations, the administrator
\* switching categories on and off between its two reads - an invocation
\* returns what classify returns, run alone, on one of the store states it
\* ran beside.
C16_ResultFromOneSnapshot ==
  /\ Done => FromOneSnapshot(result, productName, snapshots)
  /\ \A i \in DOMAIN suspended :
       suspended[i].pc = "done" =>
         FromOneSnapshot(suspended[i].result, suspended[i].productName,
                         suspended[i].snapshots)

----------------------------------------------------------------------------
(* C17 *)

\* the six points rules in their order, for the keyword candidate kw of the
\* category of row `row` whose high-priority keywords are hp, on the
\* lowercased product name lower: whether the rule applies and what it adds
PointsRules(kw, row, hp, lower) ==
  LET exact == isExactWord(kw, lower)
      substringOnly == isSubstring(kw, lower) /\ ~exact
      high == isHighPriority(kw, hp)
  IN  << [applies |-> kw = toLowerCase(row.name), adds |-> 20],
         [applies |-> kw \in Range(catWordsOf(toLowerCase(row.name))), adds |-> 15],
         [applies |-> high /\ exact, adds |-> 10],
         [applies |-> high /\ substringOnly, adds |-> 5],
         [applies |-> exact, adds |-> 5],
         [applies |-> substringOnly, adds |-> 1] >>

\* what the first rule that applies adds; nothing when no rule applies
FirstRulePoints(rules) ==
  IF \A i \in DOMAIN rules : ~rules[i].applies THEN 0
  ELSE rules[CHOOSE i \in DOMAIN rules :
               rules[i].applies /\ \A j \in 1..(i - 1) : ~rules[j].applies].adds

RECURSIVE SumOf(_)
SumOf(numbers) ==
  IF numbers = <<>> THEN 0 ELSE Head(numbers) + SumOf(Tail(numbers))

\* the candidates of kws that match lower as an exact word or as a substring
RECURSIVE MatchingCandidates(_, _)
MatchingCandidates(kws, lower) ==
  IF kws = <<>> THEN <<>>
  ELSE (IF isExactWord(Head(kws), lower) \/ isSubstring(Head(kws), lower)
          THEN <<Head(kws)>> ELSE <<>>)
       \o MatchingCandidates(Tail(kws), lower)

\* C17: the matched keywords of a category are its candidates that match the
\* product name as an exact word or as a substring, in the order of the
\* list; some rule applies to each of them; and the score of the category is
\* what the first applying rule adds for each of them (20, 15, 10, 5, 5, 1
\* in the order of the rules), plus the two bonuses - candidates that do not
\* match add nothing.
C17_FirstRuleGivesThePoints ==
  (Scored /\ ReadsSucceeded) =>
    \A id \in DOMAIN scores :
      LET row == CategoryRow(id)
          hp == categoryHighPriorityKeywordsOf(id, keywordsResult.data)
          lower == toLowerCase(productName)
          matched == matchedKeywords[id]
          rules == [i \in DOMAIN matched |-> PointsRules(matched[i], row, hp, lower)]
      IN  /\ matched = MatchingCandidates(
                         categoryKeywordsOf(row, keywordsResult.data), lower)
          /\ \A i \in DOMAIN matched : \E r \in DOMAIN rules[i] : rules[i][r].applies
          /\ scores[id] = SumOf([i \in DOMAIN matched |-> FirstRulePoints(rules[i])])
                            + multiMatchBonus(matched) + lengthBonus(matched)

\* a category is scored with a candidate that does not match and a matched
\* candidate to which more than one rule applies
C17_Witness ==
  /\ Scored /\ ReadsSucceeded
  /\ \E id \in DOMAIN scores :
       LET row == CategoryRow(id)
           hp == categoryHighPriorityKeywordsOf(id, keywordsResult.data)
           lower == toLowerCase(productName)
           matched == matchedKeywords[id]
       IN  /\ Len(matched) < Len(categoryKeywordsOf(row, keywordsResult.data))
           /\ \E i \in DOMAIN matched :
                LET rules == PointsRules(matched[i], row, hp, lower)
                IN  /\ rules[3].applies /\ rules[5].applies
                    /\ ~rules[1].applies /\ ~rules[2].applies

----------------------------------------------------------------------------
(* C18 *)

\* the high-priority keywords of category id in the invocation
HighPriorityList(id) == categoryHighPriorityKeywordsOf(id, keywordsResult.data)

\* the points the matched keywords of category id earned, without the bonuses
PointsEarned(id) ==
  sumPoints(matchedKeywords[id], CategoryRow(id), HighPriorityList(id),
            toLowerCase(productName))

\* C18: no keyword text is scored twice for a category: the matched keywords
\* of a category hold each text once, so that a category whose name is one
\* word, when that name matches, earns the 20 points of the name once and
\* has the name as one matched keyword.
C18_EachTextScoredOnce ==
  (Scored /\ ReadsSucceeded) =>
    \A id \in DOMAIN scores :
      LET matched == matchedKeywords[id]
          name == toLowerCase(CategoryRow(id).name)
      IN  /\ \A i, j \in DOMAIN matched : matched[i] = matched[j] => i = j
          /\ Range(matched) = {name} =>
               /\ PointsEarned(id) = 20
               /\ Len(matched) = 1

----------------------------------------------------------------------------
(* C19 *)

\* C19: the multi-match bonus in the score of a category is 2 times the
\* number of its matched keywords when more than one distinct keyword
\* matched, and nothing when one keyword or none matched.
C19_BonusWhenSeveralDistinctMatched ==
  (Scored /\ ReadsSucceeded) =>
    \A id \in DOMAIN scores :
      LET matched == matchedKeywords[id]
          distinct == Cardinality(Range(matched))
      IN  scores[id] - PointsEarned(id) - lengthBonus(matched)
            = (IF distinct > 1 THEN 2 * distinct ELSE 0)

----------------------------------------------------------------------------
(* C20 *)

\* C20: the length bonus in the score of a category is 2 for every matched
\* keyword of more than 5 characters, each keyword counted once, and nothing
\* for shorter or unmatched keywords.
C20_LengthBonusOncePerKeyword ==
  (Scored /\ ReadsSucceeded) =>
    \A id \in DOMAIN scores :
      LET matched == matchedKeywords[id]
      IN  scores[id] - PointsEarned(id) - multiMatchBonus(matched)
            = 2 * Cardinality({k \in Range(matched) : Len(k) > 5})

----------------------------------------------------------------------------
(* C21 *)

\* some row of category_keywords flagged high-priority for category id holds
\* a keyword that, letter case aside, equals k, is contained in k or contains k
HighPriorityFor(k, id) ==
  \E r \in category_keywords :
    /\ r.category_id = id
    /\ r.is_high_priority
    /\ LET a == toLowerCase(k)
           b == toLowerCase(r.keyword)
       IN  a = b \/ includes(a, b) \/ includes(b, a)

\* what a matched keyword adds when it is treated as high-priority (high)
\* or as a plain keyword
PointsWhenTreated(kw, row, high, lower) ==
  LET exact == isExactWord(kw, lower)
  IN  IF kw = toLowerCase(row.name) THEN 20
      ELSE IF kw \in Range(catWordsOf(toLowerCase(row.name))) THEN 15
      ELSE IF high THEN (IF exact THEN 10 ELSE 5)
      ELSE IF exact THEN 5
      ELSE 1

\* a matched keyword of category id that is neither its name nor a name word
RegisteredMatch(id, k) ==
  /\ k \in Range(matchedKeywords[id])
  /\ k # toLowerCase(CategoryRow(id).name)
  /\ k \notin Range(catWordsOf(toLowerCase(CategoryRow(id).name)))

\* C21: a matched keyword earns the points of a high-priority keyword
\* exactly when, letter case aside, it equals, contains or is contained by a
\* keyword flagged high-priority for the same category; the high-priority
\* keywords of another category do not count.
C21_HighPriorityWithinCategory ==
  (Scored /\ ReadsSucceeded) =>
    \A id \in DOMAIN scores :
      LET row == CategoryRow(id)
          lower == toLowerCase(productName)
          matched == matchedKeywords[id]
      IN  scores[id] =
            SumOf([i \in DOMAIN matched |->
                     PointsWhenTreated(matched[i], row,
                                       HighPriorityFor(matched[i], id), lower)])
              + multiMatchBonus(matched) + lengthBonus(matched)

\* the same keyword is matched for two categories; it is flagged
\* high-priority for one of them only, and earns 10 there and 5 in the other
C21_Witness ==
  /\ Scored /\ ReadsSucceeded
  /\ \E a, b \in DOMAIN scores : \E k \in Range(matchedKeywords[a]) :
       /\ a # b
       /\ RegisteredMatch(a, k) /\ RegisteredMatch(b, k)
       /\ matchedKeywords[a] = <<k>> /\ matchedKeywords[b] = <<k>>
       /\ HighPriorityFor(k, a) /\ ~HighPriorityFor(k, b)
       /\ scores[a] = 10 /\ scores[b] = 5

----------------------------------------------------------------------------
(* C22 *)

\* the pieces of s: the maximal runs of characters that are no separators
Pieces(s) ==
  {SubSeq(s, r[1], r[2]) :
     r \in {q \in (1..Len(s)) \X (1..Len(s)) :
              /\ q[1] <= q[2]
              /\ \A k \in q[1]..q[2] : ~IsSeparator(s[k])
              /\ (q[1] = 1 \/ IsSeparator(s[q[1] - 1]))
              /\ (q[2] = Len(s) \/ IsSeparator(s[q[2] + 1]))}}

\* the name tokens: the pieces of the lowercased name longer than one character
NameTokens(name) == {w \in Pieces(toLowerCase(name)) : Len(w) > 1}

\* the keywords registered under category id
RegisteredTexts(id) == {k.keyword : k \in {r \in category_keywords : r.category_id = id}}

\* what a matched keyword adds, the name tokens of the category being tokens
PointsWithTokens(kw, name, tokens, high, exact) ==
  IF kw = toLowerCase(name) THEN 20
  ELSE IF kw \in tokens THEN 15
  ELSE IF high THEN (IF exact THEN 10 ELSE 5)
  ELSE IF exact THEN 5
  ELSE 1

\* C22: the keyword candidates a category has from its name are the name
\* itself and its name tokens - the pieces of the lowercased name, split on
\* whitespace, hyphen and underscore, that are longer than one character:
\* every name token that occurs in the product name is matched, a piece of
\* one character is not matched as a piece of the name (only when it is the
\* whole name or a registered keyword), nothing else is matched, and a
\* matched name token that is not the whole name adds 15.
C22_NameTokens ==
  (Scored /\ ReadsSucceeded) =>
    \A id \in DOMAIN scores :
      LET name == CategoryRow(id).name
          tokens == NameTokens(name)
          lower == toLowerCase(productName)
          matched == matchedKeywords[id]
      IN  /\ \A w \in tokens : includes(lower, w) => w \in Range(matched)
          /\ \A w \in Pieces(toLowerCase(name)) :
               (Len(w) = 1 /\ w # toLowerCase(name) /\ w \notin RegisteredTexts(id))
                 => w \notin Range(matched)
          /\ Range(matched) \subseteq
               {toLowerCase(name)} \cup tokens \cup RegisteredTexts(id)
          /\ scores[id] =
               SumOf([i \in DOMAIN matched |->
                        PointsWithTokens(matched[i], name, tokens,
                                         HighPriorityFor(matched[i], id),
                                         isExactWord(matched[i], lower))])
                 + multiMatchBonus(matched) + lengthBonus(matched)

\* 'Home & Living' is scored on 'home & garden' with no keyword registered:
\* the token 'home' is matched and adds 15, the piece '&', which occurs in
\* the product name, is not matched
C22_Witness ==
  /\ Scored /\ ReadsSucceeded
  /\ category_keywords = {}
  /\ \E id \in DOMAIN scores :
       /\ <<"&">> \in Pieces(toLowerCase(CategoryRow(id).name))
       /\ includes(toLowerCase(productName), <<"&">>)
       /\ matchedKeywords[id] = << <<"h","o","m","e">> >>
       /\ scores[id] = 15

----------------------------------------------------------------------------
(* C23 *)

\* the categories of the invocation whose score is the highest one
TopScored ==
  {id \in DOMAIN scores : \A other \in DOMAIN scores : scores[other] <= scores[id]}

\* C23: when the highest score is positive, the category returned is, among
\* the categories with that score, the one whose name comes first in
\* ascending name order - a category met later with the same score does not
\* replace it.
C23_FirstOfTheTiedWins ==
  (Scored /\ ReadsSucceeded /\ result # Null) =>
    /\ result \in TopScored
    /\ scores[result] > 0
    /\ \A id \in TopScored \ {result} :
         CollLess(CategoryRow(result).name, CategoryRow(id).name)

\* two categories are tied at the highest score, and the one returned is
\* the first by name although it was created last
C23_Witness ==
  /\ Scored /\ ReadsSucceeded /\ result # Null
  /\ \E id \in TopScored : id < result

----------------------------------------------------------------------------
(* C24 *)

\* C24: whatever requests run beside it - assign, move-products, a product
\* save with the category's id - the DELETE of a delete request removes the
\* category row only at a moment when no product references the category.
C24_NoDeleteWhileReferenced ==
  [][(admin.route = "delete" /\ admin.pc = "write" /\ admin'.written)
       => productCount(admin.id) = 0]_vars

----------------------------------------------------------------------------
(* C26 *)

\* C26: a delete request has removed the category only after its count
\* query succeeded and reported no product; after a count query that failed
\* the category is not deleted.
C26_DeleteOnlyAfterZeroCount ==
  (admin.route = "delete" /\ admin.written) =>
    (admin.check = "ok" /\ admin.count = 0)

----------------------------------------------------------------------------
(* C27 *)

\* C27: the step that answers a request to deactivate a category which has
\* a product assigned leaves the categories as they are and, unless it
\* reports a storage error, answers with hasProducts and the number of the
\* category's products; is_active is written only for a category without
\* products or by a request that activates.
C27_DeactivationRefusedWithProducts ==
  [][(/\ admin.route = "status" /\ ~admin.is_active
      /\ admin.pc # "responded" /\ admin'.pc = "responded"
      /\ productCount(admin.id) > 0)
       => /\ categories' = categories
          /\ admin'.status # 500 =>
               (admin'.hasProducts /\ admin'.count = productCount(admin.id))]_vars

----------------------------------------------------------------------------
(* The keyword seeding migration: migrate() of the category_keywords
   migration, one step per awaited executeQuery *)

\* categoryKeywordsMap, in the order of the if / else-if chain that picks
\* from it: of every group the English triggers of its branch and some of
\* its keywords, in list order, with those of them its highPriority lists
categoryKeywordsMap ==
  << [group |-> "electronics",
      triggers |-> << <<"e","l","e","c","t","r","o","n","i","c">>, <<"t","e","c","h">> >>,
      keywords |-> << <<"p","c">>, <<"t","r","i","p","o","d">>, <<"t","r","i","p","o","d">> >>,
      highPriority |-> << <<"p","c">> >>],
     [group |-> "fashion",
      triggers |-> << <<"f","a","s","h","i","o","n">>, <<"c","l","o","t","h","i","n","g">> >>,
      keywords |-> << <<"t","e","e">>, <<"b","a","g">> >>,
      highPriority |-> << <<"b","a","g">> >>],
     [group |-> "beauty",
      triggers |-> << <<"b","e","a","u","t","y">>, <<"h","e","a","l","t","h">> >>,
      keywords |-> << <<"l","y","o">>, <<"i","r","o","n">> >>,
      highPriority |-> << <<"l","y","o">> >>],
     [group |-> "home",
      triggers |-> << <<"h","o","m","e">>, <<"l","i","v","i","n","g">> >>,
      keywords |-> << <<"m","o","p">>, <<"i","r","o","n">> >>,
      highPriority |-> << <<"m","o","p">> >>],
     [group |-> "family",
      triggers |-> << <<"f","a","m","i","l","y">>, <<"b","a","b","y">>, <<"k","i","d">> >>,
      keywords |-> << <<"b","a","b","y">>, <<"t","o","y">> >>,
      highPriority |-> << <<"b","a","b","y">>, <<"t","o","y">> >>],
     [group |-> "toys",
      triggers |-> << <<"t","o","y">>, <<"p","e","t">> >>,
      keywords |-> << <<"t","o","y">>, <<"c","a","r">>, <<"p","e","t">> >>,
      highPriority |-> << <<"t","o","y">>, <<"p","e","t">> >>] >>

\* no group: keywordsData stays null
NoGroup == 0

\* one branch condition of the chain: the name includes a trigger of group g
branchTaken(g, catNameLower) ==
  \E i \in DOMAIN categoryKeywordsMap[g].triggers :
     includes(catNameLower, categoryKeywordsMap[g].triggers[i])

\* mutant: a later branch overrides an earlier one
keywordsDataOf_lastMatch(catNameLower) ==
  IF branchTaken(6, catNameLower) THEN 6
  ELSE IF branchTaken(5, catNameLower) THEN 5
  ELSE IF branchTaken(4, catNameLower) THEN 4
  ELSE IF branchTaken(3, catNameLower) THEN 3
  ELSE IF branchTaken(2, catNameLower) THEN 2
  ELSE IF branchTaken(1, catNameLower) THEN 1
  ELSE NoGroup

\* the if / else-if chain: the group whose keywords a category receives
keywordsDataOf(catNameLower) ==
  IF branchTaken(1, catNameLower) THEN 1
  ELSE IF branchTaken(2, catNameLower) THEN 2
  ELSE IF branchTaken(3, catNameLower) THEN 3
  ELSE IF branchTaken(4, catNameLower) THEN 4
  ELSE IF branchTaken(5, catNameLower) THEN 5
  ELSE IF branchTaken(6, catNameLower) THEN 6
  ELSE NoGroup

\* keywordsData.highPriority.includes(keyword)
isHighPriorityOf(g, keyword) ==
  \E j \in DOMAIN categoryKeywordsMap[g].highPriority :
     categoryKeywordsMap[g].highPriority[j] = keyword

\* two values of the UNIQUE KEY (category_id, keyword), compared as the
\* collation of the table compares them
sameKey(row, id, keyword) ==
  row.category_id = id /\ toLowerCase(row.keyword) = toLowerCase(keyword)

\* mutant: a plain INSERT into a table without the unique key
insertOnDuplicateKeyUpdate_plainInsert(table, id, keyword, flag) ==
  table \cup {[category_id |-> id, keyword |-> keyword, is_high_priority |-> flag]}

\* INSERT ... ON DUPLICATE KEY UPDATE is_high_priority = VALUES(is_high_priority)
insertOnDuplicateKeyUpdate(table, id, keyword, flag) ==
  IF \E r \in table : sameKey(r, id, keyword)
  THEN {IF sameKey(r, id, keyword) THEN [r EXCEPT !.is_high_priority = flag] ELSE r :
          r \in table}
  ELSE table \cup {[category_id |-> id, keyword |-> keyword, is_high_priority |-> flag]}

\* keywordsData of every category read
groupsOf(list) == [j \in DOMAIN list |-> keywordsDataOf(toLowerCase(list[j].name))]

\* the loops: the position after keyword k of category c, or <<0, 0>> when
\* both loops are over
nextInsert(groups, c, k) ==
  IF c > 0 /\ groups[c] # NoGroup /\ k < Len(categoryKeywordsMap[groups[c]].keywords)
  THEN <<c, k + 1>>
  ELSE LET later == {j \in DOMAIN groups : j > c /\ groups[j] # NoGroup}
       IN  IF later = {} THEN <<0, 0>>
           ELSE <<CHOOSE j \in later : \A h \in later : j <= h, 1>>

\* what the seeding migration leaves alone
SeedFrame ==
  /\ InvocationUntouched
  /\ UNCHANGED <<previous, handler, suspended, admin, categories,
                 products, runner, product_tags, tagRequests>>

\* the migration is started: it asks information_schema for table categories
SeedStart ==
  /\ seeding.pc = "idle"
  /\ seeding.runs < MaxSeedRuns
  /\ seeding' = [seeding EXCEPT !.pc = "check", !.list = <<>>, !.groups = <<>>,
                                !.c = 0, !.k = 0,
                                !.before = category_keywords, !.failed = FALSE]
  /\ UNCHANGED <<schema, category_keywords>>
  /\ SeedFrame

\* the check answers: without table categories the migration returns
SeedCheckSucceeds ==
  /\ seeding.pc = "check"
  /\ seeding' = [seeding EXCEPT
                   !.pc = IF "categories" \in schema THEN "create" ELSE "done"]
  /\ UNCHANGED <<schema, category_keywords>>
  /\ SeedFrame

\* the check returns { success: false }: hasCategories is false
SeedCheckFails ==
  /\ seeding.pc = "check"
  /\ seeding' = [seeding EXCEPT !.pc = "done", !.failed = TRUE]
  /\ UNCHANGED <<schema, category_keywords>>
  /\ SeedFrame

\* CREATE TABLE IF NOT EXISTS category_keywords
SeedCreateSucceeds ==
  /\ seeding.pc = "create"
  /\ "categories" \in schema
  /\ schema' = schema \cup {"category_keywords"}
  /\ seeding' = [seeding EXCEPT !.pc = "read"]
  /\ UNCHANGED category_keywords
  /\ SeedFrame

\* CREATE TABLE returns { success: false }; executeQuery does not throw and
\* the result is not looked at
SeedCreateFails ==
  /\ seeding.pc = "create"
  /\ seeding' = [seeding EXCEPT !.pc = "read", !.failed = TRUE]
  /\ UNCHANGED <<schema, category_keywords>>
  /\ SeedFrame

\* SELECT id, name FROM categories WHERE is_active = 1, without ORDER BY;
\* no row: the migration returns
SeedReadSucceeds ==
  /\ seeding.pc = "read"
  /\ "categories" \in schema
  /\ \E rows \in Perms(ActiveCategoryRows(categories)) :
       LET groups == groupsOf(rows)
           at == nextInsert(groups, 0, 0)
       IN  seeding' = [seeding EXCEPT !.list = rows, !.groups = groups,
                                     !.c = at[1], !.k = at[2],
                                     !.pc = IF at[1] = 0 THEN "done" ELSE "insert"]
  /\ UNCHANGED <<schema, category_keywords>>
  /\ SeedFrame

\* the SELECT returns { success: false }: the migration returns
SeedReadFails ==
  /\ seeding.pc = "read"
  /\ seeding' = [seeding EXCEPT !.pc = "done", !.failed = TRUE]
  /\ UNCHANGED <<schema, category_keywords>>
  /\ SeedFrame

\* the loops move on after an INSERT
SeedMovesOn(failed) ==
  LET at == nextInsert(seeding.groups, seeding.c, seeding.k)
  IN  seeding' = [seeding EXCEPT !.c = at[1], !.k = at[2],
                                 !.failed = @ \/ failed,
                                 !.pc = IF at[1] = 0 THEN "done" ELSE "insert"]

\* the INSERT of one keyword of the group of one category
SeedInsertSucceeds ==
  /\ seeding.pc = "insert"
  /\ "category_keywords" \in schema
  /\ \E cat \in categories : cat.id = seeding.list[seeding.c].id
  /\ LET g == seeding.groups[seeding.c]
         keyword == categoryKeywordsMap[g].keywords[seeding.k]
     IN  category_keywords' =
           insertOnDuplicateKeyUpdate(category_keywords, seeding.list[seeding.c].id,
                                      keyword, isHighPriorityOf(g, keyword))
  /\ SeedMovesOn(FALSE)
  /\ UNCHANGED schema
  /\ SeedFrame

\* the INSERT returns { success: false }; the loop goes on
SeedInsertFails ==
  /\ seeding.pc = "insert"
  /\ SeedMovesOn(TRUE)
  /\ UNCHANGED <<schema, category_keywords>>
  /\ SeedFrame

\* migrate() returns
SeedReturns ==
  /\ seeding.pc = "done"
  /\ seeding' = [seeding EXCEPT !.pc = "idle", !.runs = @ + 1,
                                !.prevFailed = seeding.failed,
                                !.after = category_keywords]
  /\ UNCHANGED <<schema, category_keywords>>
  /\ SeedFrame

\* the categories the migration is run on: Tech Toys names a trigger of two
\* groups, Cd of none
SeedCategoryNames ==
  << <<"H","o","m","e"," ","&"," ","L","i","v","i","n","g">>, <<"T","e","c","h"," ","T","o","y","s">>, <<"C","d">> >>

SeedCategoryTables ==
  { {[id |-> i, name |-> SeedCategoryNames[i], is_active |-> act[i]] : i \in 1..3} :
      act \in {a \in [1..3 -> BOOLEAN] : a[3]} }

\* keywords an administrator registered before the migration runs
SeedKeywordTables ==
  { {},
    {[category_id |-> 1, keyword |-> <<"M","O","P">>, is_high_priority |-> FALSE]},
    {[category_id |-> 2, keyword |-> <<"p","c">>, is_high_priority |-> FALSE],
     [category_id |-> 2, keyword |-> <<"c","a","r">>, is_high_priority |-> TRUE]} }

\* the database before the migration: with its tables, without
\* category_keywords, or without categories too
InitSeed ==
  /\ \/ /\ schema = AllTables
        /\ categories \in SeedCategoryTables
        /\ category_keywords \in SeedKeywordTables
     \/ /\ schema = AllTables \ {"category_keywords"}
        /\ categories \in SeedCategoryTables
        /\ category_keywords = {}
     \/ /\ schema = {}
        /\ categories = {}
        /\ category_keywords = {}
  /\ products = {}
  /\ product_tags = {}
  /\ seeding = SeedIdle
  /\ NoRequest

NextSeed ==
  \/ SeedStart
  \/ SeedCheckSucceeds
  \/ SeedCheckFails
  \/ SeedCreateSucceeds
  \/ SeedCreateFails
  \/ SeedReadSucceeds
  \/ SeedReadFails
  \/ SeedInsertSucceeds
  \/ SeedInsertFails
  \/ SeedReturns

SpecSeed == InitSeed /\ [][NextSeed]_vars

----------------------------------------------------------------------------
(* C25 *)

\* no statement of this run or of the run before it failed
CleanRuns == ~seeding.failed /\ ~seeding.prevFailed

\* C25: category_keywords never holds two rows with the same category_id
\* and keyword, and running the seeding migration again, its statements
\* succeeding as they did in the run before, leaves the table as that run
\* left it.
C25_UniqueAndIdempotent ==
  /\ \A a, b \in category_keywords :
       sameKey(a, b.category_id, b.keyword) => a = b
  /\ (seeding.pc = "done" /\ seeding.runs >= 1 /\ CleanRuns)
       => category_keywords = seeding.after

\* a second run has ended on a table the first run filled for two
\* categories, one of them beside a keyword registered before
C25_Witness ==
  /\ seeding.pc = "done" /\ seeding.runs >= 1 /\ CleanRuns
  /\ seeding.k = 0 /\ Len(seeding.list) = 3
  /\ \E r \in category_keywords : r.keyword = <<"M","O","P">> /\ r.is_high_priority
  /\ \E r \in category_keywords : r.category_id = 2 /\ r.keyword = <<"t","r","i","p","o","d">>

----------------------------------------------------------------------------
(* C30 *)

\* the first group, in the fixed order, one of whose triggers the
\* lower-cased name contains; NoGroup when there is none
FirstGroup(name) ==
  LET hits == {g \in DOMAIN categoryKeywordsMap :
                 \E i \in DOMAIN categoryKeywordsMap[g].triggers :
                    includes(toLowerCase(name), categoryKeywordsMap[g].triggers[i])}
  IN  IF hits = {} THEN NoGroup ELSE CHOOSE g \in hits : \A h \in hits : g <= h

\* the first matching group of every category the migration is run on
FirstGroups == [n \in Range(SeedCategoryNames) |-> FirstGroup(n)]

\* row r holds keyword i of group g, flagged as the group's highPriority
\* list says
HoldsKeyword(r, id, g, i) ==
  /\ sameKey(r, id, categoryKeywordsMap[g].keywords[i])
  /\ r.is_high_priority =
       (\E j \in DOMAIN categoryKeywordsMap[g].highPriority :
           categoryKeywordsMap[g].highPriority[j] = categoryKeywordsMap[g].keywords[i])

\* the migration has been started
Seeded == seeding.pc # "idle" \/ seeding.runs > 0

\* C30: every row the seeding migration wrote belongs to an active category
\* and holds a keyword of the first group matching that category's name,
\* flagged exactly when the group's high-priority list names it; a run whose
\* statements all succeeded has written every keyword of that group for
\* every active category; without table categories nothing is written.
C30_SeedingByGroup ==
  Seeded =>
    /\ \A r \in category_keywords \ seeding.before :
         \E cat \in categories :
            /\ cat.id = r.category_id /\ cat.is_active
            /\ FirstGroups[cat.name] # NoGroup
            /\ \E i \in DOMAIN categoryKeywordsMap[FirstGroups[cat.name]].keywords :
                  HoldsKeyword(r, cat.id, FirstGroups[cat.name], i)
    /\ (seeding.pc = "done" /\ ~seeding.failed /\ "categories" \in schema) =>
         \A cat \in categories :
            (cat.is_active /\ FirstGroups[cat.name] # NoGroup) =>
              \A i \in DOMAIN categoryKeywordsMap[FirstGroups[cat.name]].keywords :
                 \E r \in category_keywords :
                    HoldsKeyword(r, cat.id, FirstGroups[cat.name], i)
    /\ "categories" \notin schema => category_keywords = seeding.before

\* a run has ended that wrote the electronics keywords, and no toys
\* keyword, for Tech Toys, changed the flag of a keyword registered before
\* and left an inactive category without keywords
C30_Witness ==
  /\ seeding.pc = "done" /\ ~seeding.failed /\ seeding.runs = 0
  /\ \E cat \in categories : cat.id = 1 /\ ~cat.is_active
  /\ \A r \in category_keywords : r.category_id # 1
  /\ [category_id |-> 2, keyword |-> <<"p","c">>, is_high_priority |-> TRUE] \in category_keywords
  /\ [category_id |-> 2, keyword |-> <<"p","c">>, is_high_priority |-> FALSE] \in seeding.before
  /\ [category_id |-> 2, keyword |-> <<"c","a","r">>, is_high_priority |-> TRUE] \in category_keywords
  /\ \A r \in category_keywords : r.keyword # <<"t","o","y">>

----------------------------------------------------------------------------
(* The migration runner: runAllMigrations, one step per await, beside the
   migrations its imports have started *)

migrate_ensure_all_tables == <<"m","i","g","r","a","t","e","_","e","n","s","u","r","e","_","a","l","l","_","t","a","b","l","e","s",".","j","s">>
migrate_add_indexes == <<"m","i","g","r","a","t","e","_","a","d","d","_","i","n","d","e","x","e","s",".","j","s">>
migrate_insert_data == <<"m","i","g","r","a","t","e","_","i","n","s","e","r","t","_","d","a","t","a",".","j","s">>

\* what readdir may find in the archive directory
ArchiveEntries ==
  {migrate_ensure_all_tables, migrate_add_indexes, migrate_insert_data,
   <<"R","E","A","D","M","E",".","m","d">>}

\* file.endsWith('.js')
endsWithJs(file) ==
  Len(file) >= 3 /\ SubSeq(file, Len(file) - 2, Len(file)) = <<".","j","s">>

\* weights of the characters of a file name under localeCompare
LocaleOrder == <<"_", "-", ".",
                 "0","1","2","3","4","5","6","7","8","9",
                 "a","b","c","d","e","f","g","h","i","j","k","l","m",
                 "n","o","p","q","r","s","t","u","v","w","x","y","z">>

LocaleRank(c) == IndexOf(LocaleOrder, toLowerChar(c))

RECURSIVE LocaleLess(_, _)
LocaleLess(a, b) ==
  IF b = <<>> THEN FALSE
  ELSE IF a = <<>> THEN TRUE
  ELSE IF LocaleRank(Head(a)) < LocaleRank(Head(b)) THEN TRUE
  ELSE IF LocaleRank(Head(a)) > LocaleRank(Head(b)) THEN FALSE
  ELSE LocaleLess(Tail(a), Tail(b))

\* a.localeCompare(b)
localeCompare(a, b) ==
  IF LocaleLess(a, b) THEN -1 ELSE IF LocaleLess(b, a) THEN 1 ELSE 0

\* the comparator handed to sort
compareMigrations(a, b) ==
  IF a = migrate_ensure_all_tables THEN -1
  ELSE IF b = migrate_ensure_all_tables THEN 1
  ELSE localeCompare(a, b)

\* files.filter(...).sort(...)
migrationFilesOf(dir) ==
  LET js == {f \in dir : endsWithJs(f)}
  IN  CHOOSE s \in Perms(js) :
        \A i, j \in DOMAIN s : i < j => compareMigrations(s[i], s[j]) <= 0

\* the module's default export is the promise of its migration
exportsPromise(file) == file = migrate_insert_data

\* the error.message / error.code tests of the catch block
ErrorKinds == {"already exists", "other"}

\* what the runner and the migrations leave alone
RunnerFrame ==
  /\ InvocationUntouched
  /\ StoreUntouched
  /\ UNCHANGED <<previous, handler, suspended, admin, schema, seeding,
                 product_tags, tagRequests>>

\* the script is started on an archive directory
RunnerStart(dir) ==
  /\ runner.pc = "idle"
  /\ runner' = [runner EXCEPT !.pc = "connecting", !.dir = dir]
  /\ RunnerFrame

\* testConnection() returns false: process.exit(1)
ConnectionFails ==
  /\ runner.pc = "connecting"
  /\ runner' = [runner EXCEPT !.pc = "exited", !.exited = TRUE, !.exitCode = 1]
  /\ RunnerFrame

\* testConnection() returns true: the files are listed, filtered and
\* sorted; without a migration file process.exit(0)
ConnectionSucceeds ==
  /\ runner.pc = "connecting"
  /\ LET files == migrationFilesOf(runner.dir)
     IN  runner' = IF files = <<>>
                   THEN [runner EXCEPT !.pc = "exited", !.exited = TRUE, !.exitCode = 0]
                   ELSE [runner EXCEPT !.pc = "import", !.files = files, !.i = 1]
  /\ RunnerFrame

\* the loop after file i: the next file, or the summary
afterFile(r) ==
  [r EXCEPT !.i = @ + 1, !.pc = IF r.i < Len(r.files) THEN "import" ELSE "summary"]

\* the catch block of the loop
caught(r, kind) ==
  afterFile(IF kind = "already exists" THEN [r EXCEPT !.skipCount = @ + 1]
                                       ELSE [r EXCEPT !.errorCount = @ + 1])

\* import(fileUrl) resolves: the module has started its migration; the
\* runner awaits the default export if it is a promise, its 100 ms timer
\* otherwise
ImportResolves ==
  /\ runner.pc = "import"
  /\ LET file == runner.files[runner.i]
     IN  runner' = [runner EXCEPT
                      !.started = Append(@, file),
                      !.running = @ \cup {file},
                      !.pc = IF exportsPromise(file) THEN "awaiting" ELSE "timer"]
  /\ RunnerFrame

\* import(fileUrl) rejects: the module could not be loaded
ImportRejects(kind) ==
  /\ runner.pc = "import"
  /\ LET file == runner.files[runner.i]
     IN  runner' = caught([runner EXCEPT
                             !.started = Append(@, file),
                             !.failures = @ \cup {[file |-> file, kind |-> kind]}],
                          kind)
  /\ RunnerFrame

\* a started migration runs to its end
MigrationResolves(file) ==
  /\ ~runner.exited
  /\ file \in runner.running
  /\ runner' = [runner EXCEPT
                  !.running = @ \ {file},
                  !.pc = IF runner.pc = "awaiting" /\ runner.files[runner.i] = file
                         THEN "timer" ELSE @]
  /\ RunnerFrame

\* a started migration throws: the runner catches what it awaits; the
\* rejection of a promise nobody holds ends the process with code 1
MigrationRejects(file, kind) ==
  /\ ~runner.exited
  /\ file \in runner.running
  /\ LET failed == [runner EXCEPT
                      !.running = @ \ {file},
                      !.failures = @ \cup {[file |-> file, kind |-> kind]}]
     IN  runner' = IF runner.pc = "awaiting" /\ runner.files[runner.i] = file
                   THEN caught(failed, kind)
                   ELSE [failed EXCEPT !.pc = "exited", !.exited = TRUE, !.exitCode = 1]
  /\ RunnerFrame

\* the 100 ms timer fires: the file counts as completed
TimerFires ==
  /\ runner.pc = "timer"
  /\ runner' = afterFile([runner EXCEPT !.successCount = @ + 1])
  /\ RunnerFrame

\* process.exit(errorCount > 0 ? 1 : 0)
RunnerExits ==
  /\ runner.pc = "summary"
  /\ runner' = [runner EXCEPT !.pc = "exited", !.exited = TRUE,
                              !.exitCode = IF runner.errorCount > 0 THEN 1 ELSE 0]
  /\ RunnerFrame

InitRunner ==
  /\ categories = {} /\ category_keywords = {} /\ products = {}
  /\ Quiet

NextRunner ==
  \/ \E dir \in SUBSET ArchiveEntries : RunnerStart(dir)
  \/ ConnectionFails
  \/ ConnectionSucceeds
  \/ ImportResolves
  \/ \E kind \in ErrorKinds : ImportRejects(kind)
  \/ \E file \in ArchiveEntries : MigrationResolves(file)
  \/ \E file \in ArchiveEntries : \E kind \in ErrorKinds : MigrationRejects(file, kind)
  \/ TimerFires
  \/ RunnerExits

SpecRunner == InitRunner /\ [][NextRunner]_vars

----------------------------------------------------------------------------
(* C28 *)

\* the runner got past its connection test
Connected == runner.pc \notin {"idle", "connecting"} /\ runner.started # <<>>

\* C28: the migrations are started with migrate_ensure_all_tables.js first
\* and the others in alphabetical order; no migration is started while
\* another one runs; when the runner has exited every migration file of
\* the directory has been started; and its exit code is non-zero exactly
\* when a migration failed with an error other than already exists.
C28_OrderedOneAtATime ==
  /\ \A i, j \in DOMAIN runner.started :
       i < j => /\ runner.started[j] # migrate_ensure_all_tables
                /\ \/ runner.started[i] = migrate_ensure_all_tables
                   \/ LocaleLess(runner.started[i], runner.started[j])
  /\ Cardinality(runner.running) <= 1
  /\ (runner.exited /\ Connected) =>
       /\ \A f \in runner.dir : endsWithJs(f) => f \in Range(runner.started)
       /\ runner.exitCode # 0 <=> (\E x \in runner.failures : x.kind = "other")

----------------------------------------------------------------------------
(* Tag sync: POST /tags/product/:itemId, one step per awaited executeQuery *)

\* the ids of the rows of table tags
ExistingTags == {1, 2}

\* the request bodies: tagIds an array of tag ids - in one case with an id
\* twice, in one with an id no tag has - or not an array
TagIdArrays == {<<>>, <<1>>, <<2>>, <<1, 2>>, <<1, 1>>, <<3>>}

TagBodies ==
  {[isArray |-> FALSE, tagIds |-> <<>>]}
    \cup {[isArray |-> TRUE, tagIds |-> a] : a \in TagIdArrays}

\* the rows of the multi-row INSERT
tagRowsOf(itemId, tagIds) ==
  {[product_item_id |-> itemId, tag_id |-> tagIds[i]] : i \in DOMAIN tagIds}

\* PRIMARY KEY (product_item_id, tag_id) and the two FOREIGN KEYs of
\* product_tags admit the INSERT
insertAdmitted(itemId, tagIds) ==
  /\ \A i, j \in DOMAIN tagIds : i # j => tagIds[i] # tagIds[j]
  /\ tagRowsOf(itemId, tagIds) \cap product_tags = {}
  /\ \A i \in DOMAIN tagIds : tagIds[i] \in ExistingTags
  /\ \E p \in products : p.item_id = itemId

\* what the tag-sync handler leaves alone
TagFrame ==
  /\ InvocationUntouched
  /\ StoreUntouched
  /\ UNCHANGED <<previous, handler, suspended, admin, schema, seeding, runner>>

\* the request arrives: 400 unless tagIds is an array, else the DELETE is
\* issued
ReceiveTagSync(r, itemId, body) ==
  /\ tagRequests[r].pc = "idle"
  /\ tagRequests' =
       [tagRequests EXCEPT ![r] =
          IF ~body.isArray
          THEN [TagIdle EXCEPT !.pc = "responded", !.itemId = itemId, !.status = 400]
          ELSE [TagIdle EXCEPT !.pc = "delete", !.itemId = itemId,
                               !.tagIds = body.tagIds]]
  /\ UNCHANGED product_tags
  /\ TagFrame

\* after the DELETE: the INSERT if tagIds is not empty, else the answer
afterDelete(req, ok) ==
  IF Len(req.tagIds) > 0
  THEN [req EXCEPT !.pc = "insert", !.deleteOk = ok]
  ELSE [req EXCEPT !.pc = "responded", !.status = 200, !.deleteOk = ok]

\* DELETE FROM product_tags WHERE product_item_id = ?
TagDeleteSucceeds(r) ==
  /\ tagRequests[r].pc = "delete"
  /\ product_tags' =
       {row \in product_tags : row.product_item_id # tagRequests[r].itemId}
  /\ tagRequests' = [tagRequests EXCEPT ![r] = afterDelete(@, TRUE)]
  /\ TagFrame

\* the DELETE returns { success: false }; the result is not looked at
TagDeleteFails(r) ==
  /\ tagRequests[r].pc = "delete"
  /\ tagRequests' = [tagRequests EXCEPT ![r] = afterDelete(@, FALSE)]
  /\ UNCHANGED product_tags
  /\ TagFrame

\* INSERT INTO product_tags (product_item_id, tag_id) VALUES (?, ?), ...
TagInsertSucceeds(r) ==
  /\ tagRequests[r].pc = "insert"
  /\ insertAdmitted(tagRequests[r].itemId, tagRequests[r].tagIds)
  /\ product_tags' =
       product_tags \cup tagRowsOf(tagRequests[r].itemId, tagRequests[r].tagIds)
  /\ tagRequests' = [tagRequests EXCEPT ![r] =
                       [@ EXCEPT !.pc = "responded", !.status = 200, !.insertOk = TRUE]]
  /\ TagFrame

\* the INSERT returns { success: false } and inserts no row; the result is
\* not looked at and the request is answered as a success
TagInsertFails(r) ==
  /\ tagRequests[r].pc = "insert"
  /\ tagRequests' = [tagRequests EXCEPT ![r] =
                       [@ EXCEPT !.pc = "responded", !.status = 200]]
  /\ UNCHANGED product_tags
  /\ TagFrame

\* the products whose tags are set, and the tags one of them may have
TagItemIds == {"item-1", "item-2"}

InitTags ==
  /\ categories = {} /\ category_keywords = {}
  /\ products = {[item_id |-> i, category_id |-> Null] : i \in TagItemIds}
  /\ product_tags \in {{}, {[product_item_id |-> "item-1", tag_id |-> 2]}}
  /\ NoRequest
  /\ schema = AllTables
  /\ seeding = SeedIdle

NextTags ==
  \/ \E r \in TagRequestIds : \E itemId \in TagItemIds : \E body \in TagBodies :
        ReceiveTagSync(r, itemId, body)
  \/ \E r \in TagRequestIds : TagDeleteSucceeds(r)
  \/ \E r \in TagRequestIds : TagDeleteFails(r)
  \/ \E r \in TagRequestIds : TagInsertSucceeds(r)
  \/ \E r \in TagRequestIds : TagInsertFails(r)

SpecTags == InitTags /\ [][NextTags]_vars

----------------------------------------------------------------------------
(* C29 *)

\* the tag set of a product
TagsOf(itemId) == {row.tag_id : row \in {x \in product_tags : x.product_item_id = itemId}}

\* request r has been answered as a success
Synced(r) == tagRequests[r].pc = "responded" /\ tagRequests[r].status = 200

\* C29: when a tag-sync request has been answered and no other one was
\* made, the product's tag set is exactly the request's tagIds; when two
\* tag-sync requests for the same product have both been answered, however
\* their statements interleaved, the product's tag set is the tagIds of one
\* of the two.
C29_TagsOfOneRequest ==
  /\ \A r, o \in TagRequestIds :
       (Synced(r) /\ tagRequests[o].pc = "idle") =>
         TagsOf(tagRequests[r].itemId) = Range(tagRequests[r].tagIds)
  /\ (Synced("first") /\ Synced("second")
        /\ tagRequests["first"].itemId = tagRequests["second"].itemId) =>
       \/ TagsOf(tagRequests["first"].itemId) = Range(tagRequests["first"].tagIds)
       \/ TagsOf(tagRequests["first"].itemId) = Range(tagRequests["second"].tagIds)

====
